---------------------------- MODULE Spec2Model ----------------------------
(***************************************************************************)
(* DataLens python-service: the connector registry, the four schema        *)
(* connectors and the quality profiler, as one state machine.              *)
(*                                                                         *)
(* One behaviour serves one request: POST /extract (get_connector, then    *)
(* Connector.extract) or POST /quality/{id} (run_quality_analysis).        *)
(* Every call that can raise because it talks to a database (connect,      *)
(* cursor.execute, pandas.read_sql) may raise; in-memory computations on   *)
(* the fetched rows are total.                                             *)
(***************************************************************************)
EXTENDS Integers, Sequences, FiniteSets, TLC

VARIABLES
    pc,               \* position of the request being served
    db_type,          \* tag given to get_connector / dbType of the snapshot
    connector,        \* class returned by get_connector
    connectAttempts,  \* connect() calls made against the target database
    openConns,        \* target-database connections opened and not closed
    status,           \* HTTP status of the response (0: none yet)
    raised,           \* exception type that left the handler ("" : none)
    catalog,          \* rows fetched by the catalog queries of extract
    fks,              \* extract: forward map (table, column) -> reference
    tables,           \* extract: the returned Table list
    mongoClients,     \* quality: pymongo clients opened and not closed
    doc,              \* the snapshot document as persisted in MongoDB
    snapshot,         \* quality: the document find_one returned
    updated_tables,   \* quality: the list written back by update_one
    df,               \* quality: the sample of the table last processed
    fk_result,        \* quality: what _check_fk_integrity answered for it
    count,            \* quality: the returned count (-1: none)
    fk_data,          \* quality: what each integrity query finds in the database
    txFailed,         \* quality: the target session is in a failed transaction
    credentials,      \* the credentials dict given to extract / run_quality_analysis
    connectCall,      \* the arguments of the driver's connect() call, once made
    runs,             \* concurrent writers of one snapshot: the locals of each
    writeLog,         \* the profiler runs in the order of their update_one
    job_status,       \* ai_service.job_status[snapshot_id] (status "none": no entry)
    series,           \* one column of a sample: df[cn]
    quality,          \* col["quality"]: the record q computed for that column
    column_table,     \* the table of that column as appended to updated_tables
    retry             \* one call of a retrying wrapper: its locals and what it did

extractVars == <<connector, catalog, fks, tables>>
sessionVars == <<fk_data, txFailed>>
qualityVars == <<mongoClients, doc, snapshot, updated_tables, df, fk_result, count,
                 fk_data, txFailed>>

callVars == <<credentials, connectCall>>
jobVars == <<runs, writeLog>>
columnVars == <<series, quality, column_table>>
\* the state of the single request, the persisted document apart
requestVars == <<pc, db_type, connector, connectAttempts, openConns, status, raised,
                 catalog, fks, tables, mongoClients, snapshot, updated_tables,
                 df, fk_result, count, fk_data, txFailed, credentials, connectCall>>

vars == <<pc, db_type, connector, connectAttempts, openConns, status, raised,
          catalog, fks, tables, mongoClients, doc, snapshot, updated_tables,
          df, fk_result, count, fk_data, txFailed, credentials, connectCall,
          runs, writeLog, job_status, series, quality,
          column_table, retry>>

(***************************************************************************)
(* Bounds and input domains                                                *)
(***************************************************************************)
MaxFkRows == 2

SupportedTags == {"postgres", "mysql", "mssql", "snowflake"}
Tags == SupportedTags \cup {"oracle", ""}

TableLists == {<<>>, <<"a">>, <<"b">>, <<"a", "b">>}
ColumnKeys == {"", "PRI", "UNI", "MUL"}

NoneRef == [table |-> "None", column |-> "None"]

RECURSIVE SeqsUpTo(_, _)
SeqsUpTo(S, n) ==
    IF n = 0 THEN {<<>>}
    ELSE LET shorter == SeqsUpTo(S, n - 1)
         IN  shorter \cup {Append(s, x) : s \in {t \in shorter : Len(t) = n - 1}, x \in S}

\* rows the foreign-key catalog query can return: two constraints on a.y with
\* different targets, one on b.x, one self-reference
FkRowSet ==
    { [table_name |-> "a", column_name |-> "y", ref_table |-> "a", ref_column |-> "x"],
      [table_name |-> "a", column_name |-> "y", ref_table |-> "b", ref_column |-> "x"],
      [table_name |-> "b", column_name |-> "x", ref_table |-> "a", ref_column |-> "x"],
      [table_name |-> "b", column_name |-> "x", ref_table |-> "b", ref_column |-> "x"] }

ColRow(tn, cn, key) == [table_name |-> tn, column_name |-> cn, column_key |-> key]

\* column-metadata rows, ORDER BY table_name, ordinal_position: table a has
\* columns (), (x) or (x, y); table b has () or (x)
ColRowLists(keys) ==
    { ra \o rb :
        ra \in {<<>>} \cup { <<ColRow("a", "x", k)>> : k \in keys }
                      \cup { <<ColRow("a", "x", k1), ColRow("a", "y", k2)>> : k1 \in keys, k2 \in keys },
        rb \in {<<>>} \cup { <<ColRow("b", "x", k)>> : k \in keys } }

EmptyCatalog ==
    [table_rows |-> <<>>, col_rows |-> <<>>, pk_rows |-> {}, fk_rows |-> <<>>,
     unique_rows |-> {}, index_rows |-> {}]

\* what the catalog queries of each dialect can fetch; a query the dialect's
\* connector does not issue fetches nothing
Catalogs(cls) ==
    IF cls = "SnowflakeConnector" THEN
        { [EmptyCatalog EXCEPT !.table_rows = t, !.col_rows = c] :
            t \in TableLists, c \in ColRowLists({""}) }
    ELSE IF cls = "MySQLConnector" THEN
        { [EmptyCatalog EXCEPT !.table_rows = t, !.col_rows = c, !.fk_rows = f] :
            t \in TableLists, c \in ColRowLists(ColumnKeys), f \in SeqsUpTo(FkRowSet, MaxFkRows) }
    ELSE IF cls = "MSSQLConnector" THEN
        { [EmptyCatalog EXCEPT !.table_rows = t, !.col_rows = c, !.fk_rows = f,
                               !.pk_rows = p, !.index_rows = i] :
            t \in TableLists, c \in ColRowLists({""}), f \in SeqsUpTo(FkRowSet, MaxFkRows),
            p \in SUBSET {<<"a", "x">>, <<"b", "x">>}, i \in SUBSET {<<"a", "x">>} }
    ELSE
        { [table_rows |-> t, col_rows |-> c, fk_rows |-> f, pk_rows |-> p,
           unique_rows |-> u, index_rows |-> i] :
            t \in TableLists, c \in ColRowLists({""}), f \in SeqsUpTo(FkRowSet, MaxFkRows),
            p \in SUBSET {<<"a", "x">>, <<"b", "x">>}, u \in SUBSET {<<"a", "y">>},
            i \in SUBSET {<<"a", "x">>} }

(***************************************************************************)
(* Quality profiler: program constants, snapshots, samples                 *)
(***************************************************************************)
MaxRows == 3          \* rows of a non-empty sample
MaxOver == 1          \* how far an orphan count exceeds the cap of 15

FallbackScore == 50
StartScore == 100
CompletenessThreshold == 80
CompletenessCap == 10
PkDeduction == 20
StaleDeduction == 5
FkCap == 15
FkChecked == 3

\* scores are kept in units of 1/400 point: completeness has 2 decimals and
\* the completeness deduction divides by 4
Scale == 4 * 100

Min(a, b) == IF a < b THEN a ELSE b
Max(a, b) == IF a > b THEN a ELSE b

\* Python round(): the nearest integer to num/den, a tie going to the even one
Round(num, den) ==
    LET q == num \div den
        r == num % den
    IN  IF 2 * r < den THEN q
        ELSE IF 2 * r > den THEN q + 1
        ELSE IF q % 2 = 0 THEN q ELSE q + 1

TemporalTypes == {"date", "time", "timestamp", "datetime"}

\* column types whose values the postgres driver hands over as dict or list,
\* which series.nunique() cannot hash
ObjectTypes == {"jsonb"}

SCol(cn, dt, pk, ref) ==
    [name |-> cn, dataType |-> dt, isPrimaryKey |-> pk, isForeignKey |-> (ref # NoneRef),
     foreignKeyRef |-> ref]

RefBX == [table |-> "b", column |-> "x"]

TableB == [name |-> "b", columns |-> <<SCol("x", "integer", TRUE, NoneRef)>>]
TableA == [name |-> "a", columns |-> <<SCol("x", "integer", TRUE, NoneRef),
                                       SCol("y", "timestamp", FALSE, RefBX)>>]
\* a composite primary key
TableK == [name |-> "k", columns |-> <<SCol("x", "integer", TRUE, NoneRef),
                                       SCol("y", "integer", TRUE, NoneRef)>>]
\* a column of JSON documents
TableJ == [name |-> "j", columns |-> <<SCol("x", "integer", TRUE, NoneRef),
                                       SCol("y", "jsonb", FALSE, NoneRef)>>]
\* two foreign-key columns
TableF == [name |-> "f", columns |-> <<SCol("x", "integer", TRUE, NoneRef),
                                       SCol("y", "integer", FALSE, RefBX),
                                       SCol("z", "integer", FALSE, RefBX)>>]
\* more foreign-key columns than are checked
TableW == [name |-> "w", columns |-> <<SCol("p", "integer", FALSE, RefBX),
                                       SCol("q", "integer", FALSE, RefBX),
                                       SCol("r", "integer", FALSE, RefBX),
                                       SCol("s", "integer", FALSE, RefBX)>>]
\* every check applies to every column
TableR == [name |-> "r", columns |-> <<SCol("x", "timestamp", TRUE, RefBX),
                                       SCol("y", "timestamp", FALSE, RefBX),
                                       SCol("z", "timestamp", FALSE, RefBX)>>]

Doc(t, ts) == [exists |-> TRUE, dbType |-> t, tables |-> ts, qualityAnalyzedAt |-> ""]
NoDoc == [exists |-> FALSE, dbType |-> "", tables |-> <<>>, qualityAnalyzedAt |-> ""]

\* the documents find_one can meet
Docs ==
    {NoDoc}
    \cup { Doc(t, ts) : t \in SupportedTags, ts \in {<<>>, <<TableA, TableB>>} }
    \cup { Doc("postgres", <<TableB, TableK>>), Doc("mssql", <<TableK>>),
           Doc("mysql", <<TableR>>), Doc("postgres", <<TableJ, TableB>>),
           Doc("postgres", <<TableF, TableB>>), Doc("mssql", <<TableW>>) }

NoSample == [loaded |-> FALSE, rows |-> 0, cols |-> <<>>]

\* distinct_count = int(series.nunique()) raises TypeError on a loaded sample
\* with a column of unhashable values
NuniqueRaises(d) == d.loaded /\ \E j \in 1..Len(d.cols) : d.cols[j].unhashable
\* what one call of _check_fk_integrity does: it returns a count or raises;
\* a column that is not checked has no call
NotAsked == [status |-> "unasked", result |-> 0]
FkRaises == [status |-> "raises", result |-> 0]
FkReturns(n) == [status |-> "ok", result |-> n]
OrphanCounts == {0, 1, FkCap + MaxOver}

\* what a loaded sample of r rows can show of one column: the number of
\* nulls, whether a value is duplicated (read for primary-key columns; pandas
\* counts a repeated null as a duplicate), for a temporal column the age
\* class of its newest value ("error": the age computation raises), and
\* whether it holds a value that cannot be hashed
ColFacts(col, r) ==
    { f \in [nulls : 0..r, dup : BOOLEAN, newest : {"none", "fresh", "stale", "error"},
             unhashable : BOOLEAN] :
        /\ f.unhashable => (col.dataType \in ObjectTypes /\ f.nulls < r)
        /\ f.dup => (col.isPrimaryKey /\ (f.nulls >= 2 \/ r - f.nulls >= 2))
        /\ (col.isPrimaryKey /\ f.nulls >= 2) => f.dup
        /\ (f.newest # "none") <=> (col.dataType \in TemporalTypes /\ f.nulls < r) }

RECURSIVE FactSeqs(_, _, _)
FactSeqs(cols, r, j) ==
    IF j > Len(cols) THEN {<<>>}
    ELSE { <<f>> \o rest : f \in ColFacts(cols[j], r), rest \in FactSeqs(cols, r, j + 1) }

Samples(table) ==
    {NoSample} \cup
    UNION { { [loaded |-> TRUE, rows |-> r, cols |-> c] : c \in FactSeqs(table.columns, r, 1) } :
            r \in {0, MaxRows} }

(***************************************************************************)
(* Python dict (insertion-ordered): a sequence of [key, val] entries       *)
(***************************************************************************)
DictHas(d, k) == \E i \in 1..Len(d) : d[i].key = k

DictGet(d, k, default) ==
    IF DictHas(d, k) THEN d[CHOOSE i \in 1..Len(d) : d[i].key = k].val ELSE default

\* d[k] = v: an existing key keeps its place and takes the new value
DictSet(d, k, v) ==
    IF DictHas(d, k)
    THEN [i \in 1..Len(d) |-> IF d[i].key = k THEN [key |-> k, val |-> v] ELSE d[i]]
    ELSE Append(d, [key |-> k, val |-> v])

(***************************************************************************)
(* Connector registry                                                      *)
(***************************************************************************)
connectors ==
    [t \in SupportedTags |->
        CASE t = "postgres"  -> "PostgresConnector"
          [] t = "mysql"     -> "MySQLConnector"
          [] t = "mssql"     -> "MSSQLConnector"
          [] t = "snowflake" -> "SnowflakeConnector"]

get_connector_AnyTag(tag) ==
    IF tag \in DOMAIN connectors
    THEN [raised |-> "", cls |-> connectors[tag]]
    ELSE [raised |-> "", cls |-> "PostgresConnector"]

get_connector(tag) ==
    IF tag \in DOMAIN connectors
    THEN [raised |-> "", cls |-> connectors[tag]]
    ELSE [raised |-> "ValueError", cls |-> "None"]

(***************************************************************************)
(* Credentials and the connect call of each dialect                        *)
(***************************************************************************)
\* Python values: None, an int, a str
PyNone == [kind |-> "None"]
PyInt(n) == [kind |-> "int", num |-> n]
PyStr(t) == [kind |-> "str", text |-> t]
\* a keyword argument the call does not pass
NotPassed == [kind |-> "not passed"]

PostgresPort == 5432
MySQLPort == 3306
MSSQLPort == 1433
ConnectTimeout == 10
GivenPort == 6000

\* a credentials dict is a function on the keys it holds; host, username and
\* password are handed to the driver as they are and are left out.
\* CredsBare: a dict with the required keys only, as a caller that takes a
\* connector from get_connector can build it;
\* CredsApi: Credentials.dict() of a request that gives no optional value,
\* every optional key present with None; CredsFull: every value given
CredsBare == [database |-> PyStr("db")]
CredsApi ==
    [database |-> PyStr("db"), port |-> PyNone, account |-> PyNone, warehouse |-> PyNone,
     schema |-> PyNone]
CredsFull ==
    [database |-> PyStr("db"), port |-> PyInt(GivenPort), account |-> PyStr("acct"),
     warehouse |-> PyStr("wh"), schema |-> PyStr("s")]
CredentialSet == {CredsBare, CredsApi, CredsFull}
\* run_quality_analysis is called by main.quality only, with creds.dict()
ApiCredentialSet == {CredsApi, CredsFull}

\* credentials.get(key, default)
Get(d, key, default) == IF key \in DOMAIN d THEN d[key] ELSE default

Digits == <<"0", "1", "2", "3", "4", "5", "6", "7", "8", "9">>

RECURSIVE Decimal(_)
Decimal(n) == IF n < 10 THEN Digits[n + 1] ELSE Decimal(n \div 10) \o Digits[(n % 10) + 1]

\* f"{value}"
Format(v) ==
    CASE v.kind = "None" -> "None"
      [] v.kind = "int"  -> Decimal(v.num)
      [] v.kind = "str"  -> v.text

NoCall == [made |-> FALSE]
Call(driver, port, timeout) ==
    [made |-> TRUE, driver |-> driver, port |-> port, timeout |-> timeout, raised |-> ""]
\* an exception raised while the arguments of the call are evaluated
ArgsRaise(exc) == [made |-> FALSE, raised |-> exc]

\* psycopg2.connect(..., port=credentials.get("port", 5432), connect_timeout=10)
PostgresConnect(c) == Call("psycopg2", Get(c, "port", PyInt(PostgresPort)), PyInt(ConnectTimeout))

\* mysql.connector.connect(..., port=int(credentials.get("port", 3306)),
\* connection_timeout=10): int(None) raises TypeError
MySQLConnect(c) ==
    LET p == Get(c, "port", PyInt(MySQLPort))
    IN  IF p.kind = "int" THEN Call("mysql.connector", p, PyInt(ConnectTimeout))
        ELSE ArgsRaise("TypeError")

\* pyodbc.connect(f"...SERVER={host},{credentials.get('port', 1433)};...", timeout=10)
MSSQLConnect(c) ==
    Call("pyodbc", PyStr(Format(Get(c, "port", PyInt(MSSQLPort)))), PyInt(ConnectTimeout))

\* snowflake.connector.connect(account=, user=, password=, database=,
\* warehouse=, schema=credentials.get("schema", "PUBLIC")): no port, no timeout
SnowflakeConnect(c) == Call("snowflake.connector", NotPassed, NotPassed)

ConnectOf(cls, c) ==
    CASE cls = "PostgresConnector"  -> PostgresConnect(c)
      [] cls = "MySQLConnector"     -> MySQLConnect(c)
      [] cls = "MSSQLConnector"     -> MSSQLConnect(c)
      [] cls = "SnowflakeConnector" -> SnowflakeConnect(c)

\* _get_db_connection: the mysql branch passes no timeout
QualityMySQLConnect(c) ==
    LET p == Get(c, "port", PyInt(MySQLPort))
    IN  IF p.kind = "int" THEN Call("mysql.connector", p, NotPassed)
        ELSE ArgsRaise("TypeError")

get_db_connection(tag, c) ==
    CASE tag = "postgres" -> PostgresConnect(c)
      [] tag = "mysql"    -> QualityMySQLConnect(c)
      [] tag = "mssql"    -> MSSQLConnect(c)
      [] OTHER            -> ArgsRaise("ValueError")

\* a server can answer the call: "SERVER=host,None" names no port
Reachable(call) == ~(call.driver = "pyodbc" /\ call.port = PyStr("None"))

\* snowflake extract, after connect: credentials.get("database").upper() and
\* credentials.get("schema", "PUBLIC").upper() raise AttributeError on None
SnowflakeNamesRaise(c) ==
    \/ Get(c, "database", PyNone) = PyNone
    \/ Get(c, "schema", PyStr("PUBLIC")) = PyNone

(***************************************************************************)
(* Connector.extract: building the maps and assembling the Schema          *)
(***************************************************************************)
RECURSIVE BuildFksFrom(_, _)
BuildFksFrom(rows, acc) ==
    IF rows = <<>> THEN acc
    ELSE BuildFksFrom(Tail(rows),
            DictSet(acc, <<Head(rows).table_name, Head(rows).column_name>>,
                    [table |-> Head(rows).ref_table, column |-> Head(rows).ref_column]))

\* fks = {}; for row in fk_rows: fks[(table, column)] = {...}
BuildFks(fk_rows) == BuildFksFrom(fk_rows, <<>>)

RECURSIVE BuildReferencedByFrom(_, _)
BuildReferencedByFrom(items, acc) ==
    IF items = <<>> THEN acc
    ELSE LET e   == Head(items)
             old == DictGet(acc, e.val.table, <<>>)
         IN  BuildReferencedByFrom(Tail(items),
                DictSet(acc, e.val.table,
                        Append(old, [table |-> e.key[1], column |-> e.key[2]])))

RECURSIVE ReferencedByOwnerFrom(_, _)
ReferencedByOwnerFrom(items, acc) ==
    IF items = <<>> THEN acc
    ELSE LET e   == Head(items)
             old == DictGet(acc, e.key[1], <<>>)
         IN  ReferencedByOwnerFrom(Tail(items),
                DictSet(acc, e.key[1],
                        Append(old, [table |-> e.key[1], column |-> e.key[2]])))

\* the inversion keyed by the referencing table instead of the referenced one
BuildReferencedBy_ByOwner(fksMap) == ReferencedByOwnerFrom(fksMap, <<>>)

\* referenced_by = {}; for (tn, cn), ref in fks.items(): setdefault(...).append(...)
BuildReferencedBy(fksMap) == BuildReferencedByFrom(fksMap, <<>>)

Column(cn, pk, fk, uq, ix, ref) ==
    [name |-> cn, isPrimaryKey |-> pk, isForeignKey |-> fk, isUnique |-> uq,
     isIndexed |-> ix, foreignKeyRef |-> ref]

\* cols_by_table.get(tn, []): the column rows of table tn, in catalog order
ColsByTable(col_rows, tn) == SelectSeq(col_rows, LAMBDA r : r.table_name = tn)

\* the Table list built from the tables that have column rows instead of from
\* the table-stats rows
PostgresExtract_OnlyWithColumns(cat) ==
    LET f    == BuildFks(cat.fk_rows)
        rb   == BuildReferencedBy(f)
        seen == SelectSeq(cat.table_rows, LAMBDA tn : ColsByTable(cat.col_rows, tn) # <<>>)
        MkCol(row) ==
            LET tn == row.table_name
                cn == row.column_name
            IN  Column(cn, <<tn, cn>> \in cat.pk_rows, DictHas(f, <<tn, cn>>),
                       <<tn, cn>> \in cat.unique_rows, <<tn, cn>> \in cat.index_rows,
                       DictGet(f, <<tn, cn>>, NoneRef))
    IN  [fks |-> f,
         tables |->
            [i \in 1..Len(seen) |->
                LET tn   == seen[i]
                    rows == ColsByTable(cat.col_rows, tn)
                IN  [name |-> tn,
                     columns |-> [j \in 1..Len(rows) |-> MkCol(rows[j])],
                     referencedBy |-> DictGet(rb, tn, <<>>)]]]

PostgresExtract(cat) ==
    LET f  == BuildFks(cat.fk_rows)
        rb == BuildReferencedBy(f)
        MkCol(row) ==
            LET tn == row.table_name
                cn == row.column_name
            IN  Column(cn, <<tn, cn>> \in cat.pk_rows, DictHas(f, <<tn, cn>>),
                       <<tn, cn>> \in cat.unique_rows, <<tn, cn>> \in cat.index_rows,
                       DictGet(f, <<tn, cn>>, NoneRef))
    IN  [fks |-> f,
         tables |->
            [i \in 1..Len(cat.table_rows) |->
                LET tn   == cat.table_rows[i]
                    rows == ColsByTable(cat.col_rows, tn)
                IN  [name |-> tn,
                     columns |-> [j \in 1..Len(rows) |-> MkCol(rows[j])],
                     referencedBy |-> DictGet(rb, tn, <<>>)]]]

MySQLExtract(cat) ==
    LET f  == BuildFks(cat.fk_rows)
        rb == BuildReferencedBy(f)
        MkCol(row) ==
            LET tn  == row.table_name
                cn  == row.column_name
                key == row.column_key
            IN  Column(cn, key = "PRI", DictHas(f, <<tn, cn>>), key = "UNI",
                       key \in {"PRI", "UNI", "MUL"}, DictGet(f, <<tn, cn>>, NoneRef))
    IN  [fks |-> f,
         tables |->
            [i \in 1..Len(cat.table_rows) |->
                LET tn   == cat.table_rows[i]
                    rows == ColsByTable(cat.col_rows, tn)
                IN  [name |-> tn,
                     columns |-> [j \in 1..Len(rows) |-> MkCol(rows[j])],
                     referencedBy |-> DictGet(rb, tn, <<>>)]]]

MSSQLExtract(cat) ==
    LET f  == BuildFks(cat.fk_rows)
        rb == BuildReferencedBy(f)
        MkCol(row) ==
            LET tn == row.table_name
                cn == row.column_name
            IN  Column(cn, <<tn, cn>> \in cat.pk_rows, DictHas(f, <<tn, cn>>), FALSE,
                       <<tn, cn>> \in cat.index_rows, DictGet(f, <<tn, cn>>, NoneRef))
    IN  [fks |-> f,
         tables |->
            [i \in 1..Len(cat.table_rows) |->
                LET tn   == cat.table_rows[i]
                    rows == ColsByTable(cat.col_rows, tn)
                IN  [name |-> tn,
                     columns |-> [j \in 1..Len(rows) |-> MkCol(rows[j])],
                     referencedBy |-> DictGet(rb, tn, <<>>)]]]

\* the warehouse connector reporting every column as indexed
SnowflakeExtract_Indexed(cat) ==
    LET MkCol(row) == Column(row.column_name, FALSE, FALSE, FALSE, TRUE, NoneRef)
    IN  [fks |-> <<>>,
         tables |->
            [i \in 1..Len(cat.table_rows) |->
                LET tn   == cat.table_rows[i]
                    rows == ColsByTable(cat.col_rows, tn)
                IN  [name |-> tn,
                     columns |-> [j \in 1..Len(rows) |-> MkCol(rows[j])],
                     referencedBy |-> <<>>]]]

SnowflakeExtract(cat) ==
    LET MkCol(row) == Column(row.column_name, FALSE, FALSE, FALSE, FALSE, NoneRef)
    IN  [fks |-> <<>>,
         tables |->
            [i \in 1..Len(cat.table_rows) |->
                LET tn   == cat.table_rows[i]
                    rows == ColsByTable(cat.col_rows, tn)
                IN  [name |-> tn,
                     columns |-> [j \in 1..Len(rows) |-> MkCol(rows[j])],
                     referencedBy |-> <<>>]]]

ExtractOf(cls, cat) ==
    CASE cls = "PostgresConnector"  -> PostgresExtract(cat)
      [] cls = "MySQLConnector"     -> MySQLExtract(cat)
      [] cls = "MSSQLConnector"     -> MSSQLExtract(cat)
      [] cls = "SnowflakeConnector" -> SnowflakeExtract(cat)

(***************************************************************************)
(* run_quality_analysis: the body of the loop over the tables              *)
(***************************************************************************)
Flag(kind, cn) == [kind |-> kind, column |-> cn]

WithField(rec, f, v) == [g \in DOMAIN rec \cup {f} |-> IF g = f THEN v ELSE rec[g]]

\* completeness = round((1 - null_count / row_count) * 100, 2), in hundredths
Completeness(null_count, rows) ==
    LET row_count == Max(rows, 1)
    IN  Round(100 * 100 * (row_count - null_count), row_count)
\* the deduction taken without its cap of 10
CompletenessDeduction_Uncapped(completeness) ==
    CompletenessThreshold * 100 - completeness

\* min(10, (80 - completeness) / 4), in units of 1/400 point
CompletenessDeduction(completeness) ==
    Min(CompletenessCap * Scale, CompletenessThreshold * 100 - completeness)

RECURSIVE ColumnsPass(_, _, _, _)
\* for col in columns: the column's quality record, the low-completeness flag
\* and its deduction
ColumnsPass(cols, d, j, acc) ==
    IF j > Len(cols) THEN acc
    ELSE LET completeness == Completeness(d.cols[j].nulls, d.rows)
             q   == [completeness |-> completeness, nullCount |-> d.cols[j].nulls]
             low == completeness < CompletenessThreshold * 100
         IN  ColumnsPass(cols, d, j + 1,
                [score   |-> IF low THEN acc.score - CompletenessDeduction(completeness)
                             ELSE acc.score,
                 flags   |-> IF low THEN Append(acc.flags, Flag("completeness", cols[j].name))
                             ELSE acc.flags,
                 columns |-> Append(acc.columns, WithField(cols[j], "quality", q))])

PkCols(cols) == {j \in 1..Len(cols) : cols[j].isPrimaryKey}

First(S) == CHOOSE j \in S : \A k \in S : j <= k

\* the duplicate deduction taken once for every primary-key column with a
\* duplicate
PkPass_EveryPkColumn(cols, d, acc) ==
    LET hit == {j \in PkCols(cols) : d.cols[j].dup}
    IN  IF hit # {}
        THEN [acc EXCEPT !.score = @ - Cardinality(hit) * PkDeduction * Scale,
                         !.flags = Append(@, Flag("pk", cols[First(hit)].name))]
        ELSE acc

\* pk_cols[0] only: pk_series.duplicated().any() -> flag, quality_score -= 20
PkPass(cols, d, acc) ==
    IF PkCols(cols) # {} /\ d.cols[First(PkCols(cols))].dup
    THEN [acc EXCEPT !.score = @ - PkDeduction * Scale,
                     !.flags = Append(@, Flag("pk", cols[First(PkCols(cols))].name))]
    ELSE acc

RECURSIVE StalePass_NoFlag(_, _, _, _)
\* the staleness deduction taken without its flag
StalePass_NoFlag(cols, d, j, acc) ==
    IF j > Len(cols) THEN acc
    ELSE IF cols[j].dataType \in TemporalTypes /\ d.cols[j].newest = "stale"
         THEN StalePass_NoFlag(cols, d, j + 1, [acc EXCEPT !.score = @ - StaleDeduction * Scale])
         ELSE StalePass_NoFlag(cols, d, j + 1, acc)

RECURSIVE StalePass(_, _, _, _)
\* for dcol in datetime_cols: days_old > 90 -> flag, quality_score -= 5; an
\* exception is swallowed
StalePass(cols, d, j, acc) ==
    IF j > Len(cols) THEN acc
    ELSE IF cols[j].dataType \in TemporalTypes /\ d.cols[j].newest = "stale"
         THEN StalePass(cols, d, j + 1,
                [acc EXCEPT !.score = @ - StaleDeduction * Scale,
                            !.flags = Append(@, Flag("stale", cols[j].name))])
         ELSE StalePass(cols, d, j + 1, acc)

RECURSIVE FkColsFrom(_, _)
FkColsFrom(cols, j) ==
    IF j > Len(cols) THEN <<>>
    ELSE IF cols[j].isForeignKey /\ cols[j].foreignKeyRef # NoneRef
         THEN <<j>> \o FkColsFrom(cols, j + 1)
         ELSE FkColsFrom(cols, j + 1)

\* every foreign-key column checked, not the first three only
FkCols_All(cols) == FkColsFrom(cols, 1)

\* fk_cols[:3], as column positions
FkCols(cols) ==
    LET all == FkColsFrom(cols, 1)
    IN  SubSeq(all, 1, Min(FkChecked, Len(all)))

RECURSIVE FkPass(_, _, _, _)
\* for fk_col in fk_cols[:3]: result > 0 -> flag, quality_score -= min(15, result);
\* an exception is swallowed
FkPass(cols, fk, idx, acc) ==
    IF idx = <<>> THEN acc
    ELSE LET j == Head(idx)
         IN  IF fk[j].status = "ok" /\ fk[j].result > 0
             THEN FkPass(cols, fk, Tail(idx),
                    [acc EXCEPT !.score = @ - Min(FkCap, fk[j].result) * Scale,
                                !.flags = Append(@, Flag("fk", cols[j].name))])
             ELSE FkPass(cols, fk, Tail(idx), acc)

FinalScore_NoFloor(score) == Round(score, Scale)

\* max(0, round(quality_score))
FinalScore(score) == Max(0, Round(score, Scale))

\* the sample-load failure branch giving the table no flag
Fallback_NoFlag(table) ==
    WithField(WithField(table, "qualityScore", FallbackScore), "qualityFlags", <<>>)

\* except: qualityScore = 50, one flag, continue
Fallback(table) ==
    WithField(WithField(table, "qualityScore", FallbackScore),
              "qualityFlags", <<Flag("sample", table.name)>>)

\* one iteration of the loop over the tables, given what the sample load and
\* the integrity queries answered: the table appended to updated_tables, and
\* the quality_score it had before rounding
ProfileTable(table, d, fk) ==
    IF ~d.loaded
    THEN [table |-> Fallback(table), quality_score |-> StartScore * Scale, checks |-> {}]
    ELSE LET cols == table.columns
             a0 == [score |-> StartScore * Scale, flags |-> <<>>, columns |-> <<>>]
             a1 == ColumnsPass(cols, d, 1, a0)
             a2 == PkPass(cols, d, a1)
             a3 == StalePass(cols, d, 1, a2)
             a4 == FkPass(cols, fk, FkCols(cols), a3)
         IN  [table |->
                WithField(WithField([table EXCEPT !.columns = a4.columns],
                                    "qualityScore", FinalScore(a4.score)),
                          "qualityFlags", a4.flags),
              quality_score |-> a4.score,
              checks |-> {"columns", "pk", "stale", "fk"}]

SampleCap == 10000

\* the statement _load_sample hands to pd.read_sql: the select list, the
\* quoted table and the dialect's row limit; col_names is not read
load_sample(tag, table_name, col_names) ==
    [select |-> <<"*">>,
     from   |-> [quote |-> IF tag = "postgres" THEN "double quotes"
                           ELSE IF tag = "mysql" THEN "backticks" ELSE "brackets",
                 name  |-> table_name],
     limit  |-> [syntax |-> IF tag = "mssql" THEN "TOP" ELSE "LIMIT", rows |-> SampleCap]]

\* the answers the integrity queries of one table can give: one per checked
\* column when the sample loaded, none otherwise
RECURSIVE FkAnswers(_, _, _, _)
FkAnswers(cols, asked, counts, j) ==
    IF j > Len(cols) THEN {<<>>}
    ELSE { <<a>> \o rest :
            a \in (IF j \in asked
                   THEN {FkRaises} \cup {FkReturns(n) : n \in counts}
                   ELSE {NotAsked}),
            rest \in FkAnswers(cols, asked, counts, j + 1) }

\* what the calls of _check_fk_integrity answer, in column order, on the one
\* connection: the query's own answer, except that on a postgres session
\* every statement after a failed one raises until the transaction is rolled
\* back, and nothing in the checks rolls it back
RECURSIVE FkAnsweredFrom(_, _, _, _)
FkAnsweredFrom(tag, data, j, failed) ==
    IF j > Len(data) THEN [answers |-> <<>>, failed |-> failed]
    ELSE LET a    == IF data[j] = NotAsked THEN NotAsked
                     ELSE IF failed THEN FkRaises ELSE data[j]
             f    == failed \/ (tag = "postgres" /\ a = FkRaises)
             rest == FkAnsweredFrom(tag, data, j + 1, f)
         IN  [answers |-> <<a>> \o rest.answers, failed |-> rest.failed]

FkAnswered(tag, data, failed) == FkAnsweredFrom(tag, data, 1, failed)

\* the query counts over the whole table, the sample is its first 10000
\* rows: an empty sample is an empty table, which has no orphan
FkResults(table, d) ==
    FkAnswers(table.columns,
              IF d.loaded THEN {FkCols(table.columns)[k] : k \in 1..Len(FkCols(table.columns))}
              ELSE {},
              IF d.rows = 0 THEN {0} ELSE OrphanCounts, 1)

(***************************************************************************)
(* What the other entry points hold before they are used                   *)
(***************************************************************************)
\* job_status has no entry for the snapshot
NoStatus == [status |-> "none", progress |-> 0, total |-> 0, currentTable |-> ""]
\* no column has been profiled
NoSeries == [nulls |-> 0, texts |-> 0, values |-> <<>>]
NoQuality == [profiled |-> FALSE]
NoTable == [name |-> "", columns |-> <<>>]
\* no wrapper has been called
NoRetry == [fn |-> "", pc |-> "idle", attempt |-> 0, errors |-> <<>>, waits |-> <<>>,
            returned |-> FALSE]

(***************************************************************************)
(* POST /extract                                                           *)
(***************************************************************************)
Init ==
    /\ pc = "idle"
    /\ db_type = ""
    /\ connector = "None"
    /\ connectAttempts = 0
    /\ openConns = 0
    /\ status = 0
    /\ raised = ""
    /\ catalog = EmptyCatalog
    /\ fks = <<>>
    /\ tables = <<>>
    /\ mongoClients = 0
    /\ doc = NoDoc
    /\ snapshot = NoDoc
    /\ updated_tables = <<>>
    /\ df = NoSample
    /\ fk_result = <<>>
    /\ count = -1
    /\ fk_data = <<>>
    /\ txFailed = FALSE
    /\ credentials = CredsBare
    /\ connectCall = NoCall
    /\ runs = <<>>
    /\ writeLog = <<>>
    /\ job_status = NoStatus
    /\ series = NoSeries
    /\ quality = NoQuality
    /\ column_table = NoTable
    /\ retry = NoRetry

\* main.extract up to the call of connector.extract: get_connector(creds.db_type);
\* a ValueError becomes HTTP 400
ExtractRequest(tag) ==
    /\ pc = "idle"
    /\ LET r == get_connector(tag)
       IN  /\ db_type' = tag
           /\ connector' = r.cls
           /\ raised' = r.raised
           /\ IF r.raised = "ValueError"
              THEN pc' = "rejected" /\ status' = 400
              ELSE pc' = "dispatched" /\ status' = 0
    /\ credentials' \in CredentialSet
    /\ UNCHANGED <<connectAttempts, openConns, catalog, fks, tables, qualityVars, connectCall>>
    /\ UNCHANGED <<jobVars, job_status, columnVars, retry>>

\* extract: an argument of the connect call raises (int(None)); no call is
\* made and main.extract answers 500
ExtractArgsRaise ==
    /\ pc = "dispatched"
    /\ ConnectOf(connector, credentials).raised # ""
    /\ pc' = "raised"
    /\ raised' = ConnectOf(connector, credentials).raised
    /\ status' = 500
    /\ UNCHANGED <<db_type, connector, connectAttempts, openConns, catalog, fks, tables,
                   qualityVars, callVars>>
    /\ UNCHANGED <<jobVars, job_status, columnVars, retry>>

\* extract: the driver's connect() returns a connection
ExtractConnect ==
    /\ pc = "dispatched"
    /\ ConnectOf(connector, credentials).raised = ""
    /\ Reachable(ConnectOf(connector, credentials))
    /\ connectCall' = ConnectOf(connector, credentials)
    /\ connectAttempts' = connectAttempts + 1
    /\ openConns' = openConns + 1
    /\ pc' = "connected"
    /\ UNCHANGED <<db_type, connector, status, raised, catalog, fks, tables, qualityVars,
                   credentials>>
    /\ UNCHANGED <<jobVars, job_status, columnVars, retry>>

\* extract: connect() raises (unreachable, authentication, timeout); main.extract
\* answers 500
ExtractConnectFails ==
    /\ pc = "dispatched"
    /\ ConnectOf(connector, credentials).raised = ""
    /\ connectCall' = ConnectOf(connector, credentials)
    /\ connectAttempts' = connectAttempts + 1
    /\ pc' = "raised"
    /\ raised' = "Exception"
    /\ status' = 500
    /\ UNCHANGED <<db_type, connector, openConns, catalog, fks, tables, qualityVars,
                   credentials>>
    /\ UNCHANGED <<jobVars, job_status, columnVars, retry>>

\* extract: a cursor.execute of a catalog query raises; nothing in extract
\* catches it and nothing closes conn on the way out
ExtractCatalogFails ==
    /\ pc = "connected"
    /\ pc' = "raised"
    /\ raised' = "Exception"
    /\ status' = 500
    /\ UNCHANGED <<db_type, connector, connectAttempts, openConns, catalog, fks, tables,
                   qualityVars, callVars>>
    /\ UNCHANGED <<jobVars, job_status, columnVars, retry>>

\* extract: every catalog query answers; the maps are built, the Table list is
\* assembled, cur.close(), conn.close(), return tables
ExtractReturn ==
    /\ pc = "connected"
    /\ ~(connector = "SnowflakeConnector" /\ SnowflakeNamesRaise(credentials))
    /\ \E cat \in Catalogs(connector) :
          /\ catalog' = cat
          /\ LET r == ExtractOf(connector, cat)
             IN  fks' = r.fks /\ tables' = r.tables
    /\ openConns' = openConns - 1
    /\ pc' = "returned"
    /\ status' = 200
    /\ UNCHANGED <<db_type, connector, connectAttempts, raised, qualityVars, callVars>>
    /\ UNCHANGED <<jobVars, job_status, columnVars, retry>>

(***************************************************************************)
(* POST /quality/{snapshot_id}: run_quality_analysis                       *)
(***************************************************************************)
\* MongoClient(...), find_one: the snapshot is missing -> client.close(),
\* ValueError (main.quality answers 500); or it is there -> db_type, tables
QualityRequest(d) ==
    /\ pc = "idle"
    /\ doc' = d
    /\ snapshot' = d
    /\ IF d.exists
       THEN /\ pc' = "q_found"
            /\ db_type' = d.dbType
            /\ mongoClients' = mongoClients + 1
            /\ UNCHANGED <<status, raised>>
       ELSE /\ pc' = "q_raised"
            /\ mongoClients' = mongoClients
            /\ raised' = "ValueError"
            /\ status' = 500
            /\ UNCHANGED db_type
    /\ credentials' \in ApiCredentialSet
    /\ UNCHANGED <<connectAttempts, openConns, extractVars, updated_tables, df, fk_result, count,
                   connectCall, sessionVars>>
    /\ UNCHANGED <<jobVars, job_status, columnVars, retry>>

\* _get_db_connection: the driver's connect() returns; updated_tables = []
QualityConnect ==
    /\ pc = "q_found"
    /\ get_db_connection(db_type, credentials).raised = ""
    /\ Reachable(get_db_connection(db_type, credentials))
    /\ connectCall' = get_db_connection(db_type, credentials)
    /\ connectAttempts' = connectAttempts + 1
    /\ openConns' = openConns + 1
    /\ updated_tables' = <<>>
    /\ pc' = "q_loop"
    /\ UNCHANGED <<db_type, status, raised, extractVars, mongoClients, doc, snapshot,
                   df, fk_result, count, credentials, sessionVars>>
    /\ UNCHANGED <<jobVars, job_status, columnVars, retry>>

\* a connect failure answered by giving every table the fallback score and
\* writing the document
QualityConnectFails_Fallback ==
    /\ pc = "q_found"
    /\ get_db_connection(db_type, credentials).raised = ""
    /\ connectCall' = get_db_connection(db_type, credentials)
    /\ connectAttempts' = connectAttempts + 1
    /\ updated_tables' = [i \in 1..Len(snapshot.tables) |-> Fallback(snapshot.tables[i])]
    /\ doc' = [doc EXCEPT !.tables = updated_tables', !.qualityAnalyzedAt = "now"]
    /\ pc' = "q_raised"
    /\ raised' = "Exception"
    /\ status' = 500
    /\ UNCHANGED <<db_type, openConns, extractVars, mongoClients, snapshot, df, fk_result,
                   count, credentials, sessionVars>>
    /\ UNCHANGED <<jobVars, job_status, columnVars, retry>>

\* _get_db_connection: connect() raises; the exception leaves
\* run_quality_analysis at line 27 and main.quality answers 500
QualityConnectFails ==
    /\ pc = "q_found"
    /\ get_db_connection(db_type, credentials).raised = ""
    /\ connectCall' = get_db_connection(db_type, credentials)
    /\ connectAttempts' = connectAttempts + 1
    /\ pc' = "q_raised"
    /\ raised' = "Exception"
    /\ status' = 500
    /\ UNCHANGED <<db_type, openConns, extractVars, mongoClients, doc, snapshot,
                   updated_tables, df, fk_result, count, credentials, sessionVars>>
    /\ UNCHANGED <<jobVars, job_status, columnVars, retry>>

\* _get_db_connection raises before any connect call: no branch for the
\* dbType (ValueError), or int(None) for the mysql port (TypeError); the
\* exception leaves run_quality_analysis and main.quality answers 500
QualityUnsupported ==
    /\ pc = "q_found"
    /\ get_db_connection(db_type, credentials).raised # ""
    /\ pc' = "q_raised"
    /\ raised' = get_db_connection(db_type, credentials).raised
    /\ status' = 500
    /\ UNCHANGED <<db_type, connectAttempts, openConns, extractVars, mongoClients, doc,
                   snapshot, updated_tables, df, fk_result, count, callVars, sessionVars>>
    /\ UNCHANGED <<jobVars, job_status, columnVars, retry>>

\* one iteration of `for table in tables`: _load_sample on conn (it may raise,
\* and it does on a session whose transaction has failed: pandas then rolls
\* the transaction back), the column metrics, the checks (each
\* _check_fk_integrity on the same conn), updated_tables.append(table)
QualityTable ==
    /\ pc = "q_loop"
    /\ Len(updated_tables) < Len(snapshot.tables)
    /\ LET table == snapshot.tables[Len(updated_tables) + 1]
       IN  \E d \in Samples(table) : \E data \in FkResults(table, d) :
             LET ans == FkAnswered(db_type, data, txFailed)
             IN  /\ ~NuniqueRaises(d)
                 /\ txFailed => ~d.loaded
                 /\ df' = d
                 /\ fk_data' = data
                 /\ fk_result' = ans.answers
                 /\ txFailed' = (d.loaded /\ ans.failed)
                 /\ updated_tables' =
                        Append(updated_tables, ProfileTable(table, d, ans.answers).table)
    /\ UNCHANGED <<pc, db_type, connectAttempts, openConns, status, raised, extractVars,
                   mongoClients, doc, snapshot, count, callVars>>
    /\ UNCHANGED <<jobVars, job_status, columnVars, retry>>

\* one iteration in which series.nunique() meets a column of unhashable values:
\* the TypeError is raised outside every try of the loop body, leaves
\* run_quality_analysis with conn and the Mongo client open, and main.quality
\* answers 500
QualityTableRaises ==
    /\ pc = "q_loop"
    /\ Len(updated_tables) < Len(snapshot.tables)
    /\ LET table == snapshot.tables[Len(updated_tables) + 1]
       IN  \E d \in Samples(table) :
             /\ NuniqueRaises(d)
             /\ ~txFailed
             /\ df' = d
             /\ fk_result' = [j \in 1..Len(table.columns) |-> NotAsked]
             /\ fk_data' = [j \in 1..Len(table.columns) |-> NotAsked]
    /\ pc' = "q_raised"
    /\ raised' = "Exception"
    /\ status' = 500
    /\ UNCHANGED <<db_type, connectAttempts, openConns, extractVars, mongoClients, doc,
                   snapshot, updated_tables, count, callVars, txFailed>>
    /\ UNCHANGED <<jobVars, job_status, columnVars, retry>>

\* after the loop: update_one($set tables, qualityAnalyzedAt), client.close(),
\* return len(updated_tables); main.quality answers 200
QualityWrite ==
    /\ pc = "q_loop"
    /\ Len(updated_tables) = Len(snapshot.tables)
    /\ doc' = [doc EXCEPT !.tables = updated_tables, !.qualityAnalyzedAt = "now"]
    /\ mongoClients' = mongoClients - 1
    /\ count' = Len(updated_tables)
    /\ pc' = "q_done"
    /\ status' = 200
    /\ UNCHANGED <<db_type, connectAttempts, openConns, raised, extractVars, snapshot,
                   updated_tables, df, fk_result, callVars, sessionVars>>
    /\ UNCHANGED <<jobVars, job_status, columnVars, retry>>

Next ==
    \/ \E tag \in Tags : ExtractRequest(tag)
    \/ ExtractArgsRaise
    \/ ExtractConnect
    \/ ExtractConnectFails
    \/ ExtractCatalogFails
    \/ ExtractReturn
    \/ \E d \in Docs : QualityRequest(d)
    \/ QualityConnect
    \/ QualityConnectFails
    \/ QualityUnsupported
    \/ QualityTable
    \/ QualityTableRaises
    \/ QualityWrite

Spec == Init /\ [][Next]_vars

(***************************************************************************)
(* Concurrent writers of one snapshot: run_quality_analysis runs and the   *)
(* background task generate_docs_background, each a sequence of MongoDB    *)
(* operations that interleave with those of the others                     *)
(***************************************************************************)
ProfileRuns == {"run1", "run2"}
DocsJob == "docs"
\* the background tasks of two /generate-docs requests for the snapshot
DocsJobs == {DocsJob, "docs2"}

\* the snapshot the writers share; its tables have no foreign key, so no
\* integrity query is made and the session never fails
WriterDoc == Doc("mysql", <<TableB, TableK>>)

\* the instants of the successive profiler writes
Times == <<"t1", "t2">>

\* the locals of one writer before its first statement
Locals(kind) ==
    [kind |-> kind, pc |-> "start", tables |-> <<>>, updated_tables |-> <<>>,
     all_docs |-> {}, saved |-> 0]

\* who works on the snapshot: two profiler runs, one run and the docs job, or
\* the docs jobs of two requests
WriterSets ==
    { [w \in ProfileRuns |-> Locals("profile")],
      [w \in {"run1", DocsJob} |-> IF w = DocsJob THEN Locals("docs") ELSE Locals("profile")],
      [w \in DocsJobs |-> Locals("docs")] }

\* the samples a run can load here: none, or MaxRows rows without nulls
RunSamples(table) ==
    { d \in Samples(table) :
        d.loaded => (d.rows = MaxRows /\ \A j \in 1..Len(d.cols) : d.cols[j].nulls = 0) }

InitWriters ==
    /\ pc = "idle"
    /\ db_type = ""
    /\ connector = "None"
    /\ connectAttempts = 0
    /\ openConns = 0
    /\ status = 0
    /\ raised = ""
    /\ catalog = EmptyCatalog
    /\ fks = <<>>
    /\ tables = <<>>
    /\ mongoClients = 0
    /\ doc = WriterDoc
    /\ snapshot = NoDoc
    /\ updated_tables = <<>>
    /\ df = NoSample
    /\ fk_result = <<>>
    /\ count = -1
    /\ fk_data = <<>>
    /\ txFailed = FALSE
    /\ credentials = CredsFull
    /\ connectCall = NoCall
    /\ runs \in WriterSets
    /\ writeLog = <<>>
    /\ job_status = NoStatus
    /\ series = NoSeries
    /\ quality = NoQuality
    /\ column_table = NoTable
    /\ retry = NoRetry

IsRun(w, kind, at) == w \in DOMAIN runs /\ runs[w].kind = kind /\ runs[w].pc = at

\* run_quality_analysis: snapshot = find_one(...); tables = snapshot.get("tables", [])
ProfileFind(w) ==
    /\ IsRun(w, "profile", "start")
    /\ runs' = [runs EXCEPT ![w].tables = doc.tables, ![w].pc = "found"]
    /\ UNCHANGED <<requestVars, doc, writeLog, job_status, columnVars, retry>>

\* conn = _get_db_connection(db_type, credentials)
ProfileConnect(w) ==
    /\ IsRun(w, "profile", "found")
    /\ get_db_connection(doc.dbType, credentials).raised = ""
    /\ runs' = [runs EXCEPT ![w].pc = "loop"]
    /\ UNCHANGED <<requestVars, doc, writeLog, job_status, columnVars, retry>>

\* the connect call raises: the run ends before any write
ProfileConnectFails(w) ==
    /\ IsRun(w, "profile", "found")
    /\ runs' = [runs EXCEPT ![w].pc = "raised"]
    /\ UNCHANGED <<requestVars, doc, writeLog, job_status, columnVars, retry>>

\* one iteration of the loop over the tables the run read
ProfileTableStep(w) ==
    /\ IsRun(w, "profile", "loop")
    /\ Len(runs[w].updated_tables) < Len(runs[w].tables)
    /\ LET table == runs[w].tables[Len(runs[w].updated_tables) + 1]
       IN  \E d \in RunSamples(table) : \E data \in FkResults(table, d) :
             LET ans == FkAnswered(doc.dbType, data, FALSE)
             IN  runs' = [runs EXCEPT ![w].updated_tables =
                            Append(@, ProfileTable(table, d, ans.answers).table)]
    /\ UNCHANGED <<requestVars, doc, writeLog, job_status, columnVars, retry>>

\* a write that stores a table only when its score is not the fallback score
ProfileWrite_LoadedOnly(w) ==
    /\ IsRun(w, "profile", "loop")
    /\ Len(runs[w].updated_tables) = Len(runs[w].tables)
    /\ doc' = [doc EXCEPT
                 !.tables = [i \in 1..Len(doc.tables) |->
                               IF runs[w].updated_tables[i].qualityScore = FallbackScore
                               THEN doc.tables[i] ELSE runs[w].updated_tables[i]],
                 !.qualityAnalyzedAt = Times[Len(writeLog) + 1]]
    /\ writeLog' = Append(writeLog, w)
    /\ runs' = [runs EXCEPT ![w].pc = "done"]
    /\ UNCHANGED <<requestVars, job_status, columnVars, retry>>

\* update_one({"_id": ...}, {"$set": {"tables": updated_tables,
\* "qualityAnalyzedAt": now}}): one update of the whole array and the stamp
ProfileWrite(w) ==
    /\ IsRun(w, "profile", "loop")
    /\ Len(runs[w].updated_tables) = Len(runs[w].tables)
    /\ doc' = [doc EXCEPT !.tables = runs[w].updated_tables,
                          !.qualityAnalyzedAt = Times[Len(writeLog) + 1]]
    /\ writeLog' = Append(writeLog, w)
    /\ runs' = [runs EXCEPT ![w].pc = "done"]
    /\ UNCHANGED <<requestVars, job_status, columnVars, retry>>

\* one record of job_status
Status(state, progress, total, currentTable) ==
    [status |-> state, progress |-> progress, total |-> total, currentTable |-> currentTable]

\* main.generate_docs: job_status[snapshot_id] = running, "Starting AI
\* documentation..."; background_tasks.add_task(generate_docs_background)
GenerateDocs(w) ==
    /\ IsRun(w, "docs", "start")
    /\ job_status' = Status("running", 0, 0, "Starting")
    /\ runs' = [runs EXCEPT ![w].pc = "queued"]
    /\ UNCHANGED <<requestVars, doc, writeLog, columnVars, retry>>

\* generate_docs_background, first statement: job_status[snapshot_id] =
\* running, "Connecting..."
DocsBegin(w) ==
    /\ IsRun(w, "docs", "queued")
    /\ job_status' = Status("running", 0, 0, "Connecting")
    /\ runs' = [runs EXCEPT ![w].pc = "running"]
    /\ UNCHANGED <<requestVars, doc, writeLog, columnVars, retry>>

\* init_ai() or ensure_qdrant_collection() raises; the outer except sets
\* job_status[snapshot_id] = failed, nothing is written to the document
DocsInitFails(w) ==
    /\ IsRun(w, "docs", "running")
    /\ job_status' = Status("failed", 0, 0, "error")
    /\ runs' = [runs EXCEPT ![w].pc = "failed"]
    /\ UNCHANGED <<requestVars, doc, writeLog, columnVars, retry>>

\* snapshot = find_one(...); tables = snapshot.get("tables", []); then
\* job_status[snapshot_id]["total"] = total and ["currentTable"] = ... set on
\* the record that is in job_status now
DocsFind(w) ==
    /\ IsRun(w, "docs", "running")
    /\ doc.exists
    /\ runs' = [runs EXCEPT ![w].tables = doc.tables, ![w].pc = "found"]
    /\ job_status' = [job_status EXCEPT !.total = Len(doc.tables),
                                        !.currentTable = "Generating"]
    /\ UNCHANGED <<requestVars, doc, writeLog, columnVars, retry>>

\* the tables the unified answer can document: all of them, or none when the
\* call or the parsing of its answer fails (all_docs = {}, db_overview = {})
AllDocs(ts) == { {}, {ts[i].name : i \in 1..Len(ts)} }

\* the unified call, then if db_overview: update_one($set databaseSummary, ...)
DocsOverview(w) ==
    /\ IsRun(w, "docs", "found")
    /\ \E answered \in AllDocs(runs[w].tables) :
         /\ runs' = [runs EXCEPT ![w].all_docs = answered, ![w].pc = "saving"]
         /\ doc' = IF answered # {} THEN WithField(doc, "databaseSummary", "overview")
                   ELSE doc
    /\ UNCHANGED <<requestVars, writeLog, job_status, columnVars, retry>>

\* ai_data = all_docs.get(table_name) or {"tableSummary": "Documentation
\* pending ...", "columnDescriptions": {}, ...}
AiData(all_docs, table_name) ==
    IF table_name \in all_docs
    THEN [tableSummary |-> "summary", usageRecommendations |-> "usage",
          sampleQueries |-> <<"query">>, columnDescription |-> "description"]
    ELSE [tableSummary |-> "pending", usageRecommendations |-> "",
          sampleQueries |-> <<>>, columnDescription |-> ""]

\* for col in table.get("columns", []): col["aiDescription"] = ...;
\* updated_columns.append(col), over the columns the job read
UpdatedColumns(table, ai_data) ==
    [j \in 1..Len(table.columns) |->
        WithField(table.columns[j], "aiDescription", ai_data.columnDescription)]

\* update_one({"_id": ..., "tables.name": table_name}, {"$set": {"tables.$.f": v}}):
\* the fields are set on the first element of the persisted array with that
\* name, whose other fields stay; no element of that name, no change
PositionalSet(ts, table_name, ai_data, updated_columns) ==
    LET hits == {k \in 1..Len(ts) : ts[k].name = table_name}
        k == CHOOSE h \in hits : \A g \in hits : h <= g
    IN  IF hits = {} THEN ts
        ELSE [ts EXCEPT ![k] =
                WithField(WithField(WithField(WithField(ts[k],
                    "aiSummary", ai_data.tableSummary),
                    "aiUsageRecommendations", ai_data.usageRecommendations),
                    "aiSampleQueries", ai_data.sampleQueries),
                    "columns", updated_columns)]

\* one iteration of for i, table in enumerate(tables): currentTable and
\* progress = i are set on the record that is in job_status now, then the
\* table is saved; a failing embedding call is caught and changes nothing
DocsSaveTable(w) ==
    /\ IsRun(w, "docs", "saving")
    /\ runs[w].saved < Len(runs[w].tables)
    /\ LET table == runs[w].tables[runs[w].saved + 1]
           ai_data == AiData(runs[w].all_docs, table.name)
       IN  doc' = [doc EXCEPT !.tables =
                     PositionalSet(@, table.name, ai_data, UpdatedColumns(table, ai_data))]
    /\ job_status' = [job_status EXCEPT !.currentTable = "Saving",
                                        !.progress = runs[w].saved]
    /\ runs' = [runs EXCEPT ![w].saved = @ + 1]
    /\ UNCHANGED <<requestVars, writeLog, columnVars, retry>>

\* after the loop: update_one($set aiGeneratedAt), then job_status[snapshot_id]
\* = complete with progress = total and an empty currentTable
DocsFinish(w) ==
    /\ IsRun(w, "docs", "saving")
    /\ runs[w].saved = Len(runs[w].tables)
    /\ doc' = WithField(doc, "aiGeneratedAt", "now")
    /\ job_status' = Status("complete", Len(runs[w].tables), Len(runs[w].tables), "")
    /\ runs' = [runs EXCEPT ![w].pc = "done"]
    /\ UNCHANGED <<requestVars, writeLog, columnVars, retry>>

NextWriters ==
    \/ \E w \in ProfileRuns : ProfileFind(w)
    \/ \E w \in ProfileRuns : ProfileConnect(w)
    \/ \E w \in ProfileRuns : ProfileConnectFails(w)
    \/ \E w \in ProfileRuns : ProfileTableStep(w)
    \/ \E w \in ProfileRuns : ProfileWrite(w)
    \/ \E w \in DocsJobs : GenerateDocs(w)
    \/ \E w \in DocsJobs : DocsBegin(w)
    \/ \E w \in DocsJobs : DocsInitFails(w)
    \/ \E w \in DocsJobs : DocsFind(w)
    \/ \E w \in DocsJobs : DocsOverview(w)
    \/ \E w \in DocsJobs : DocsSaveTable(w)
    \/ \E w \in DocsJobs : DocsFinish(w)

SpecWriters == InitWriters /\ [][NextWriters]_vars

(***************************************************************************)
(* The profile of one column: lines 47-107 of run_quality_analysis applied *)
(* to the series of a one-column table                                     *)
(***************************************************************************)
MaxNulls == 3
MaxValues == 5
SpikeLen == 10
MinNumeric == 5
ZLimit == 3

\* the numbers a sampled value can be
Vals == {1, 2, 3, 4, 100}

\* the numeric values of a series of up to n values; their order enters none
\* of the statistics, so they are kept in ascending order
RECURSIVE SortedSeqs(_)
SortedSeqs(n) ==
    IF n = 0 THEN {<<>>}
    ELSE SortedSeqs(n - 1) \cup
         { Append(p[1], p[2]) :
             p \in { c \in SortedSeqs(n - 1) \X Vals :
                       /\ Len(c[1]) = n - 1
                       /\ c[1] # <<>> => c[1][n - 1] <= c[2] } }

\* SpikeLen equal values and one other
Spike(v, w) ==
    IF v <= w THEN [i \in 1..SpikeLen |-> v] \o <<w>>
    ELSE <<w>> \o [i \in 1..SpikeLen |-> v]

\* a series: its None values, its values that are no number (one text,
\* repeated) and its numbers
SeriesSet ==
    { [nulls |-> k, texts |-> t, values |-> vs] :
        k \in 0..MaxNulls, t \in {0, 1},
        vs \in SortedSeqs(MaxValues) \cup {Spike(v, w) : v \in Vals, w \in Vals} }

\* len(df)
Rows(s) == s.nulls + s.texts + Len(s.values)

\* series.nunique(dropna=False): None counts as a value
nunique_WithNulls(s) ==
    Cardinality({s.values[i] : i \in 1..Len(s.values)})
        + (IF s.texts > 0 THEN 1 ELSE 0) + (IF s.nulls > 0 THEN 1 ELSE 0)

\* series.nunique(): the distinct values that are not None
nunique(s) ==
    Cardinality({s.values[i] : i \in 1..Len(s.values)}) + (IF s.texts > 0 THEN 1 ELSE 0)

RECURSIVE SumFrom(_, _)
SumFrom(vs, i) == IF i > Len(vs) THEN 0 ELSE vs[i] + SumFrom(vs, i + 1)
RECURSIVE SquaresFrom(_, _)
SquaresFrom(vs, i) == IF i > Len(vs) THEN 0 ELSE vs[i] * vs[i] + SquaresFrom(vs, i + 1)

\* numeric_series.quantile(k / 4) times 4, by linear interpolation between
\* the two values next to position (n - 1) * k / 4 of the sorted values
Quantile4(vs, k) ==
    LET h  == k * (Len(vs) - 1)
        lo == (h \div 4) + 1
        fr == h % 4
    IN  IF fr = 0 THEN 4 * vs[lo]
        ELSE 4 * vs[lo] + fr * (vs[lo + 1] - vs[lo])

\* outlier_mask.sum(): the values below q1 - 1.5 * iqr or above q3 + 1.5 * iqr
FenceOutliers(vs) ==
    LET q1  == Quantile4(vs, 1)
        q3  == Quantile4(vs, 3)
        iqr == q3 - q1
    IN  Cardinality({ i \in 1..Len(vs) :
                        \/ 8 * vs[i] < 2 * q1 - 3 * iqr
                        \/ 8 * vs[i] > 2 * q3 + 3 * iqr })

\* numeric_series.std() > 0: the values are not all equal
Spread(vs) == \E i \in 1..Len(vs) : vs[i] # vs[1]

\* (np.abs(zscore) > 3).sum(): |x - mean| > 3 * std with the population
\* standard deviation, squared and multiplied by n * n
ZOutliers(vs) ==
    LET n  == Len(vs)
        s1 == SumFrom(vs, 1)
        s2 == SquaresFrom(vs, 1)
    IN  Cardinality({ i \in 1..n :
                        (n * vs[i] - s1) * (n * vs[i] - s1)
                            > ZLimit * ZLimit * (n * s2 - s1 * s1) })

\* the count taken from the z-scores alone
outlier_count_ZOnly(vs) ==
    IF Spread(vs) THEN ZOutliers(vs) ELSE 0

\* outlier_count: the fence count, raised to the z-score count when std > 0
outlier_count(vs) ==
    IF Spread(vs) THEN Max(FenceOutliers(vs), ZOutliers(vs)) ELSE FenceOutliers(vs)

\* q: completeness in hundredths, uniquenessRatio in ten-thousandths,
\* outlierPct in hundredths; with at least 5 numbers also min, max and the
\* outlier fields (avg, stdDev, the percentiles, skewness and kurtosis are
\* real-valued and not followed)
ColumnQuality(s) ==
    LET row_count == Max(Rows(s), 1)
        null_count == s.nulls
        distinct_count == nunique(s)
        numeric_series == s.values
        base == [profiled |-> TRUE,
                 completeness |-> Completeness(null_count, Rows(s)),
                 nullCount |-> null_count,
                 distinctCount |-> distinct_count,
                 uniquenessRatio |-> Round(100 * 100 * distinct_count, row_count)]
    IN  IF Len(numeric_series) >= MinNumeric
        THEN WithField(WithField(WithField(WithField(base,
                "min", numeric_series[1]),
                "max", numeric_series[Len(numeric_series)]),
                "outlierCount", outlier_count(numeric_series)),
                "outlierPct", Round(100 * 100 * outlier_count(numeric_series), row_count))
        ELSE base

\* the table of the column, and the sample as the table loop sees it
TableOne == [name |-> "t", columns |-> <<SCol("v", "integer", FALSE, NoneRef)>>]
SampleOf(s) ==
    [loaded |-> TRUE, rows |-> Rows(s),
     cols |-> <<[nulls |-> s.nulls, dup |-> FALSE, newest |-> "none", unhashable |-> FALSE]>>]

InitColumn ==
    /\ pc = "idle"
    /\ db_type = ""
    /\ connector = "None"
    /\ connectAttempts = 0
    /\ openConns = 0
    /\ status = 0
    /\ raised = ""
    /\ catalog = EmptyCatalog
    /\ fks = <<>>
    /\ tables = <<>>
    /\ mongoClients = 0
    /\ doc = NoDoc
    /\ snapshot = NoDoc
    /\ updated_tables = <<>>
    /\ df = NoSample
    /\ fk_result = <<>>
    /\ count = -1
    /\ fk_data = <<>>
    /\ txFailed = FALSE
    /\ credentials = CredsBare
    /\ connectCall = NoCall
    /\ runs = <<>>
    /\ writeLog = <<>>
    /\ job_status = NoStatus
    /\ series \in SeriesSet
    /\ quality = NoQuality
    /\ column_table = NoTable
    /\ retry = NoRetry

\* one iteration of the table loop over the table of the column: q for the
\* column, score and flags for the table
ProfileColumn ==
    /\ quality = NoQuality
    /\ quality' = ColumnQuality(series)
    /\ column_table' =
          [ProfileTable(TableOne, SampleOf(series), <<NotAsked>>).table
              EXCEPT !.columns = <<WithField(TableOne.columns[1], "quality",
                                             ColumnQuality(series))>>]
    /\ UNCHANGED <<requestVars, doc, jobVars, job_status, series, retry>>

NextColumn == ProfileColumn

SpecColumn == InitColumn /\ [][NextColumn]_vars

(***************************************************************************)
(* The retrying wrappers of ai_service: _get_embedding_with_retry and      *)
(* _call_gemini_with_retry, one call of the wrapped API per step           *)
(***************************************************************************)
MaxRetries == 3
EmbedWait == 5
GeminiWait == 10

UpperCase == <<"A", "B", "C", "D", "E", "F", "G", "H", "I", "J", "K", "L", "M",
               "N", "O", "P", "Q", "R", "S", "T", "U", "V", "W", "X", "Y", "Z">>
LowerCase == <<"a", "b", "c", "d", "e", "f", "g", "h", "i", "j", "k", "l", "m",
               "n", "o", "p", "q", "r", "s", "t", "u", "v", "w", "x", "y", "z">>

\* str.lower(), a text being the sequence of its characters
Lower(text) ==
    [i \in 1..Len(text) |->
        IF \E k \in 1..Len(UpperCase) : UpperCase[k] = text[i]
        THEN LowerCase[CHOOSE k \in 1..Len(UpperCase) : UpperCase[k] = text[i]]
        ELSE text[i]]

\* kw in text
Contains(text, kw) ==
    \E i \in 1..(Len(text) - Len(kw) + 1) : SubSeq(text, i, i + Len(kw) - 1) = kw

\* "429", "quota", "rate"
EmbedKeywords ==
    { <<"4", "2", "9">>, <<"q", "u", "o", "t", "a">>, <<"r", "a", "t", "e">> }

\* "429", "quota", "rate", "limit", "resource_exhausted"
GeminiKeywords ==
    EmbedKeywords \cup
    { <<"l", "i", "m", "i", "t">>,
      <<"r", "e", "s", "o", "u", "r", "c", "e", "_", "e", "x", "h", "a", "u", "s", "t", "e", "d">> }

\* the messages str(e) of the errors the wrapped call can raise
ErrorMessages ==
    { <<"4", "2", "9">>,
      <<"Q", "u", "o", "t", "a">>,
      <<"g", "e", "n", "e", "r", "a", "t", "e">>,
      <<"L", "i", "m", "i", "t">>,
      <<"d", "o", "w", "n">> }

\* "429" in error_str or "quota" in error_str or "rate" in error_str
EmbedRateLimit(msg) ==
    \E kw \in EmbedKeywords : Contains(Lower(msg), kw)

\* any(kw in error_str for kw in ["429", "quota", "rate", "limit", "resource_exhausted"])
GeminiRateLimit(msg) ==
    \E kw \in GeminiKeywords : Contains(Lower(msg), kw)

RECURSIVE Pow2(_)
Pow2(n) == IF n = 0 THEN 1 ELSE 2 * Pow2(n - 1)

\* the retry test taken without its bound on the attempt
EmbedRetries_AnyAttempt(attempt, msg) == EmbedRateLimit(msg)

\* attempt < max_retries - 1 and ("429" in ... or "quota" in ... or "rate" in ...)
EmbedRetries(attempt, msg) == attempt < MaxRetries - 1 /\ EmbedRateLimit(msg)

\* is_rate_limit and attempt < max_retries - 1
GeminiRetries(attempt, msg) == GeminiRateLimit(msg) /\ attempt < MaxRetries - 1

Wrappers == {"_get_embedding_with_retry", "_call_gemini_with_retry"}

Retries(fn, attempt, msg) ==
    IF fn = "_get_embedding_with_retry" THEN EmbedRetries(attempt, msg)
    ELSE GeminiRetries(attempt, msg)

\* wait = (2 ** attempt) * 5, wait_time = (2 ** attempt) * 10
WaitOf(fn, attempt) ==
    Pow2(attempt) * (IF fn = "_get_embedding_with_retry" THEN EmbedWait ELSE GeminiWait)

InitRetry ==
    /\ pc = "idle"
    /\ db_type = ""
    /\ connector = "None"
    /\ connectAttempts = 0
    /\ openConns = 0
    /\ status = 0
    /\ raised = ""
    /\ catalog = EmptyCatalog
    /\ fks = <<>>
    /\ tables = <<>>
    /\ mongoClients = 0
    /\ doc = NoDoc
    /\ snapshot = NoDoc
    /\ updated_tables = <<>>
    /\ df = NoSample
    /\ fk_result = <<>>
    /\ count = -1
    /\ fk_data = <<>>
    /\ txFailed = FALSE
    /\ credentials = CredsBare
    /\ connectCall = NoCall
    /\ runs = <<>>
    /\ writeLog = <<>>
    /\ job_status = NoStatus
    /\ series = NoSeries
    /\ quality = NoQuality
    /\ column_table = NoTable
    /\ retry \in { [NoRetry EXCEPT !.fn = fn, !.pc = "calling"] : fn \in Wrappers }

\* one pass of the loop body in which the wrapped call returns: return it
CallReturns ==
    /\ retry.pc = "calling"
    /\ retry.attempt < MaxRetries
    /\ retry' = [retry EXCEPT !.pc = "returned", !.returned = TRUE]
    /\ UNCHANGED <<requestVars, doc, jobVars, job_status, columnVars>>

\* one pass in which the wrapped call raises: sleep and go on with the next
\* attempt, or re-raise; a loop that runs out returns None
CallRaises(msg) ==
    /\ retry.pc = "calling"
    /\ retry.attempt < MaxRetries
    /\ retry' =
         IF Retries(retry.fn, retry.attempt, msg)
         THEN [retry EXCEPT !.errors = Append(@, msg),
                            !.waits = Append(@, WaitOf(retry.fn, retry.attempt)),
                            !.attempt = @ + 1,
                            !.pc = IF retry.attempt + 1 < MaxRetries THEN "calling"
                                   ELSE "returned None"]
         ELSE [retry EXCEPT !.errors = Append(@, msg), !.pc = "raised"]
    /\ UNCHANGED <<requestVars, doc, jobVars, job_status, columnVars>>

NextRetry ==
    \/ CallReturns
    \/ \E msg \in ErrorMessages : CallRaises(msg)

SpecRetry == InitRetry /\ [][NextRetry]_vars

(***************************************************************************)
(* Properties                                                              *)
(***************************************************************************)
SeqElems(q) == {q[k] : k \in 1..Len(q)}

ExtractEnded == pc \in {"returned", "raised"}

\* C1: when extract has ended, by returning or by raising, it has made no
\* more than one connect call, exactly one if it returned, and no connection
\* it opened is still open
C1_ConnectionClosedOnEveryExit ==
    /\ ExtractEnded => (connectAttempts <= 1 /\ openConns = 0)
    /\ pc = "returned" => connectAttempts = 1

\* C3: get_connector with a tag outside the four raises ValueError with no
\* connection attempt and nothing else changed; with one of the four it
\* returns the matching connector, also without a connection attempt
C3_UnknownTagRejectedWithoutIO ==
    /\ (pc \in {"rejected", "dispatched", "connected", "returned", "raised"}
            /\ db_type \notin SupportedTags)
        => /\ pc = "rejected"
           /\ raised = "ValueError"
           /\ connector = "None"
           /\ connectAttempts = 0 /\ openConns = 0
           /\ catalog = EmptyCatalog /\ fks = <<>> /\ tables = <<>>
    /\ pc = "dispatched"
        => /\ db_type \in SupportedTags
           /\ connector = connectors[db_type]
           /\ raised = ""
           /\ connectAttempts = 0 /\ openConns = 0
           /\ catalog = EmptyCatalog /\ fks = <<>> /\ tables = <<>>

C3_Witness == pc = "rejected" /\ db_type = "oracle" /\ status = 400

\* C9: every column the snowflake connector returns has isPrimaryKey,
\* isForeignKey, isUnique and isIndexed false and no foreignKeyRef, and every
\* table it returns has referencedBy = []
C9_WarehouseHasNoKeyMetadata ==
    (pc = "returned" /\ connector = "SnowflakeConnector")
        => \A i \in 1..Len(tables) :
              /\ tables[i].referencedBy = <<>>
              /\ \A j \in 1..Len(tables[i].columns) :
                    LET c == tables[i].columns[j]
                    IN  /\ ~c.isPrimaryKey /\ ~c.isForeignKey
                        /\ ~c.isUnique /\ ~c.isIndexed
                        /\ c.foreignKeyRef = NoneRef

C9_Witness ==
    /\ pc = "returned" /\ connector = "SnowflakeConnector"
    /\ Len(tables) = 2
    /\ Len(tables[1].columns) = 2

\* the (table, column) pairs the forward map sends to table tn
Referrers(fksMap, tn) ==
    { [table |-> fksMap[k].key[1], column |-> fksMap[k].key[2]] :
        k \in {k \in 1..Len(fksMap) : fksMap[k].val.table = tn} }

\* C10: in a returned Schema the referencedBy of every table holds, once each,
\* exactly the (table, column) pairs that the forward foreign-key map sends to
\* that table (so it is the empty list when there is none), and the
\* foreignKeyRef of every emitted column is the forward map's entry
C10_ReferencedByInvertsForwardMap ==
    pc = "returned"
        => \A i \in 1..Len(tables) :
              LET T == tables[i]
              IN  /\ SeqElems(T.referencedBy) = Referrers(fks, T.name)
                  /\ Len(T.referencedBy) = Cardinality(Referrers(fks, T.name))
                  /\ \A j \in 1..Len(T.columns) :
                        LET c == T.columns[j]
                        IN  /\ c.isForeignKey <=> DictHas(fks, <<T.name, c.name>>)
                            /\ c.foreignKeyRef = DictGet(fks, <<T.name, c.name>>, NoneRef)

C10_Witness ==
    /\ pc = "returned" /\ connector = "PostgresConnector"
    /\ Len(tables) = 2
    /\ Len(tables[1].referencedBy) = 2
    /\ tables[2].referencedBy = <<>>
    /\ Len(fks) = 2

QualityEnded == pc \in {"q_done", "q_raised"}

\* C2: run_quality_analysis makes one connect call, uses that connection for
\* every table, and when it has ended, by returning or by raising, no
\* connection it opened is still open
C2_OneConnectionClosedOnEveryExit ==
    /\ pc \in {"q_loop", "q_done"} => connectAttempts = 1
    /\ QualityEnded => openConns = 0

HasQuality(t) == {"qualityScore", "qualityFlags"} \subseteq DOMAIN t

IsFallback(t, orig) ==
    /\ t.qualityScore = FallbackScore
    /\ Len(t.qualityFlags) = 1
    /\ t.qualityFlags[1].kind = "sample"
    /\ t.columns = orig.columns

\* C4: a table whose sample load raised has qualityScore 50 and exactly one
\* flag, its columns are as they were read (no column metric, no check ran on
\* it), and the run is still in its loop, able to take the next table or to
\* write; such a table stays so in updated_tables
C4_SampleFailureFallback ==
    /\ (pc \in {"q_loop", "q_done"} /\ updated_tables # <<>> /\ ~df.loaded)
        => /\ IsFallback(updated_tables[Len(updated_tables)],
                         snapshot.tables[Len(updated_tables)])
           /\ \A j \in 1..Len(fk_result) : fk_result[j] = NotAsked
    /\ (~df.loaded /\ snapshot.exists /\ connectAttempts = 1 /\ openConns = 1)
        => pc \in {"q_loop", "q_done"}
    /\ \A i \in 1..Len(updated_tables) :
          (\E k \in 1..Len(updated_tables[i].qualityFlags) :
                updated_tables[i].qualityFlags[k].kind = "sample")
            => IsFallback(updated_tables[i], snapshot.tables[i])

C4_Witness ==
    /\ pc = "q_done"
    /\ Len(doc.tables) = 2
    /\ doc.tables[1].qualityFlags = <<Flag("sample", "a")>>
    /\ doc.tables[1].qualityScore = 50
    /\ df.loaded
    /\ Len(doc.tables[2].qualityFlags) = 1
    /\ doc.tables[2].qualityScore = 80

\* C5: once the target connection is open the run never raises and can always
\* take its next step; at every point updated_tables is the schema's prefix by
\* name with qualityScore and qualityFlags on every table, and at the end the
\* persisted list is that of all the tables and the count is their number
C5_RunCompletesForEveryTable ==
    /\ pc = "q_raised" => openConns = 0
    /\ pc = "q_loop" => ENABLED (QualityTable \/ QualityWrite)
    /\ pc \in {"q_loop", "q_done"}
        => /\ Len(updated_tables) <= Len(snapshot.tables)
           /\ \A i \in 1..Len(updated_tables) :
                 /\ updated_tables[i].name = snapshot.tables[i].name
                 /\ HasQuality(updated_tables[i])
    /\ pc = "q_done"
        => /\ doc.tables = updated_tables
           /\ Len(doc.tables) = Len(snapshot.tables)
           /\ doc.qualityAnalyzedAt = "now"
           /\ count = Len(snapshot.tables)
           /\ status = 200 /\ raised = ""

\* C6: when the connect call of the profiler raises, the error reaches the
\* caller, no table has been given a score and the persisted document is the
\* one that was read: neither tables nor qualityAnalyzedAt is written
C6_ConnectFailureLeavesSnapshotUntouched ==
    (pc = "q_raised" /\ snapshot.exists /\ connectAttempts = 1 /\ openConns = 0)
        => /\ raised = "Exception" /\ status = 500 /\ count = -1
           /\ updated_tables = <<>>
           /\ doc = snapshot
           /\ doc.qualityAnalyzedAt = ""
           /\ \A i \in 1..Len(doc.tables) : ~HasQuality(doc.tables[i])

C6_Witness ==
    /\ pc = "q_raised" /\ connectAttempts = 1 /\ openConns = 0
    /\ Len(doc.tables) = 2
    /\ db_type = "mysql"

\* the iteration that produced the last element of updated_tables
LastTable == snapshot.tables[Len(updated_tables)]
LastRun == ProfileTable(LastTable, df, fk_result)
Profiled == pc \in {"q_loop", "q_done"} /\ updated_tables # <<>>

\* C7: every qualityScore the profiler assigns is an integer from 0 to 100;
\* the score before rounding never exceeds 100
C7_ScoreWithinZeroToHundred ==
    /\ \A i \in 1..Len(updated_tables) : updated_tables[i].qualityScore \in 0..StartScore
    /\ \A i \in 1..Len(doc.tables) :
          HasQuality(doc.tables[i]) => doc.tables[i].qualityScore \in 0..StartScore
    /\ Profiled => LastRun.quality_score <= StartScore * Scale

C7_Witness ==
    /\ Profiled /\ df.loaded
    /\ LastRun.quality_score < 0
    /\ updated_tables[Len(updated_tables)].qualityScore = 0

\* the sample d without the duplicates of the columns J
NoDupAt(d, J) ==
    [d EXCEPT !.cols = [j \in 1..Len(d.cols) |->
                            IF j \in J THEN [d.cols[j] EXCEPT !.dup = FALSE] ELSE d.cols[j]]]

TwentyBelow(last, twin) ==
    /\ last.qualityScore = Max(0, Round(twin.quality_score, Scale) - PkDeduction)
    /\ twin.table.qualityScore = Max(0, Round(twin.quality_score, Scale))
    /\ Len(last.qualityFlags) = Len(twin.table.qualityFlags) + 1

\* C8: a table whose first primary-key column has a duplicate in the sample
\* scores max(0, s - 20) and has one flag more, s being the rounded unfloored
\* score of the same table and sample without that duplicate; and the same
\* against the table with no duplicate in any primary-key column, so the 20
\* points are taken once
C8_DuplicatePkCostsTwentyOnce ==
    (Profiled /\ df.loaded /\ PkCols(LastTable.columns) # {})
        => LET p    == First(PkCols(LastTable.columns))
               pks  == PkCols(LastTable.columns)
               last == updated_tables[Len(updated_tables)]
           IN  df.cols[p].dup
                => /\ df.cols[p].nulls <= 1
                        => TwentyBelow(last, ProfileTable(LastTable, NoDupAt(df, {p}), fk_result))
                   /\ (\A j \in pks : df.cols[j].nulls <= 1)
                        => TwentyBelow(last, ProfileTable(LastTable, NoDupAt(df, pks), fk_result))

C8_Witness ==
    /\ Profiled /\ df.loaded /\ LastTable.name = "r"
    /\ df.cols[1].dup /\ df.cols[1].nulls = 1
    /\ Round(ProfileTable(LastTable, NoDupAt(df, {1}), fk_result).quality_score, Scale) \in 1..19
    /\ updated_tables[1].qualityScore = 0


\* the positions of the column-metadata rows of table tn
ColRowsOf(cat, tn) == {k \in 1..Len(cat.col_rows) : cat.col_rows[k].table_name = tn}

\* C11: the returned list has one Table per table-stats row, in that order;
\* each Table has one column per column-metadata row of its name, in that
\* order, so none when there is no such row; and extract has returned without
\* raising, also when there is no table-stats row
C11_OneTablePerCatalogRow ==
    pc = "returned"
        => /\ raised = "" /\ status = 200
           /\ Len(tables) = Len(catalog.table_rows)
           /\ \A i \in 1..Len(tables) :
                 LET T == tables[i]
                     K == ColRowsOf(catalog, catalog.table_rows[i])
                 IN  /\ T.name = catalog.table_rows[i]
                     /\ Len(T.columns) = Cardinality(K)
                     /\ \A j \in 1..Len(T.columns) :
                           \E k \in K :
                              /\ catalog.col_rows[k].column_name = T.columns[j].name
                              /\ Cardinality({m \in K : m < k}) = j - 1

C11_Witness ==
    /\ pc = "returned" /\ connector = "PostgresConnector"
    /\ catalog.table_rows = <<"a", "b">>
    /\ Len(tables[1].columns) = 2
    /\ tables[2].columns = <<>>

\* the foreign-key rows f and g are the same rows in some order
SameRows(f, g) ==
    /\ Len(f) = Len(g)
    /\ \A x \in FkRowSet :
          Cardinality({k \in 1..Len(f) : f[k] = x}) = Cardinality({k \in 1..Len(g) : g[k] = x})

\* C12: an extract of the same catalog whose foreign-key query answers the
\* same rows in another order returns the same columns (foreignKeyRef
\* included) and the same referencedBy entries for every table
C12_ExtractIndependentOfRowOrder ==
    pc = "returned"
        => \A f2 \in SeqsUpTo(FkRowSet, MaxFkRows) :
              SameRows(f2, catalog.fk_rows)
                => LET again == ExtractOf(connector, [catalog EXCEPT !.fk_rows = f2]).tables
                   IN  /\ Len(again) = Len(tables)
                       /\ \A i \in 1..Len(tables) :
                             /\ again[i].columns = tables[i].columns
                             /\ SeqElems(again[i].referencedBy) = SeqElems(tables[i].referencedBy)

\* C13: every connect call made by extract or by run_quality_analysis is
\* given a connect timeout, and the timeout is 10 seconds
C13_EveryConnectHasTimeout ==
    connectCall.made => connectCall.timeout = PyInt(ConnectTimeout)

\* the credentials give none of the optional values: each key is missing or
\* holds None
NoOptionals(c) ==
    \A k \in {"port", "account", "warehouse", "schema"} : Get(c, k, PyNone) = PyNone

\* the port the call connects to is the dialect's default; psycopg2 leaves a
\* keyword that is None out of the connection string, and libpq then takes
\* 5432; the snowflake call has no port
UsesDefaultPort(call) ==
    CASE call.driver = "psycopg2"            -> call.port \in {PyInt(PostgresPort), PyNone}
      [] call.driver = "mysql.connector"     -> call.port = PyInt(MySQLPort)
      [] call.driver = "pyodbc"              -> call.port = PyStr("1433")
      [] call.driver = "snowflake.connector" -> call.port = NotPassed

\* C14: with credentials that give no port and none of account, warehouse,
\* schema (keys missing, or present with None), no exception is raised
\* before the connect call, and the call goes to the dialect's default port
C14_MissingOptionalsUseDefaults ==
    NoOptionals(credentials)
        => /\ raised # "TypeError"
           /\ connectCall.made => UsesDefaultPort(connectCall)

\* C15: for a snapshot of any of the four dialects run_quality_analysis does
\* not fail with the unsupported-dialect error
C15_ProfileAcceptsEveryDialect ==
    (pc = "q_raised" /\ snapshot.exists /\ db_type \in SupportedTags)
        => raised # "ValueError"

\* the checks that fire on a sample and on the answers of the integrity
\* queries, read off the inputs
LowCols(d) ==
    {j \in 1..Len(d.cols) : Completeness(d.cols[j].nulls, d.rows) < CompletenessThreshold * 100}
StaleCols(cols, d) ==
    {j \in 1..Len(cols) : cols[j].dataType \in TemporalTypes /\ d.cols[j].newest = "stale"}
PkHit(cols, d) == PkCols(cols) # {} /\ d.cols[First(PkCols(cols))].dup
OrphanCols(fk) == {j \in 1..Len(fk) : fk[j].status = "ok" /\ fk[j].result > 0}

KindCount(flags, kind) == Cardinality({k \in 1..Len(flags) : flags[k].kind = kind})

\* the sum of min(10, (80 - completeness) / 4) over the low columns from j on,
\* in units of 1/400 point
RECURSIVE LowSum(_, _)
LowSum(d, j) ==
    IF j > Len(d.cols) THEN 0
    ELSE (IF j \in LowCols(d)
          THEN Min(CompletenessCap * Scale,
                   CompletenessThreshold * 100 - Completeness(d.cols[j].nulls, d.rows))
          ELSE 0) + LowSum(d, j + 1)

\* the sum of min(15, n) over the columns with n > 0 orphans from j on
RECURSIVE OrphanSum(_, _)
OrphanSum(fk, j) ==
    IF j > Len(fk) THEN 0
    ELSE (IF j \in OrphanCols(fk) THEN Min(FkCap, fk[j].result) ELSE 0) + OrphanSum(fk, j + 1)

\* C18: for a table whose sample loaded, qualityFlags has one flag for every
\* deduction taken from the score and no other: one per column below 80%
\* completeness, one for a duplicate in the first primary-key column, one per
\* stale temporal column, one per foreign-key column with orphans; and the
\* score before rounding is 100 less exactly these deductions, so a check that
\* raised and was swallowed gives neither
C18_OneFlagPerDeduction ==
    (Profiled /\ df.loaded)
        => LET cols  == LastTable.columns
               flags == updated_tables[Len(updated_tables)].qualityFlags
               pk    == IF PkHit(cols, df) THEN 1 ELSE 0
           IN  /\ KindCount(flags, "completeness") = Cardinality(LowCols(df))
               /\ KindCount(flags, "pk") = pk
               /\ KindCount(flags, "stale") = Cardinality(StaleCols(cols, df))
               /\ KindCount(flags, "fk") = Cardinality(OrphanCols(fk_result))
               /\ Len(flags) = Cardinality(LowCols(df)) + pk + Cardinality(StaleCols(cols, df))
                                    + Cardinality(OrphanCols(fk_result))
               /\ LastRun.quality_score =
                    StartScore * Scale - LowSum(df, 1) - pk * PkDeduction * Scale
                        - Cardinality(StaleCols(cols, df)) * StaleDeduction * Scale
                        - OrphanSum(fk_result, 1) * Scale

C18_Witness ==
    /\ Profiled /\ df.loaded /\ LastTable.name = "r"
    /\ \A kind \in {"completeness", "pk", "stale", "fk"} :
          KindCount(updated_tables[Len(updated_tables)].qualityFlags, kind) >= 1
    /\ \E j \in 1..Len(df.cols) : df.cols[j].newest = "error"
    /\ \E j \in 1..Len(fk_result) : fk_result[j] = FkRaises

\* the sample and the integrity answers in which every check that raises finds
\* nothing wrong instead
HealedSample(d) ==
    [d EXCEPT !.cols = [j \in 1..Len(d.cols) |->
                            IF d.cols[j].newest = "error"
                            THEN [d.cols[j] EXCEPT !.newest = "fresh"] ELSE d.cols[j]]]
HealedAnswers(data) ==
    [j \in 1..Len(data) |-> IF data[j] = FkRaises THEN FkReturns(0) ELSE data[j]]

\* C19: a staleness or integrity check that raises is swallowed: the table's
\* qualityScore and qualityFlags are those of the run in which that check
\* found nothing wrong and every other check of the table found what the
\* database holds, and the run has not raised
C19_SwallowedCheckLeavesNoTrace ==
    (Profiled /\ df.loaded)
        => LET last   == updated_tables[Len(updated_tables)]
               healed == ProfileTable(LastTable, HealedSample(df), HealedAnswers(fk_data)).table
           IN  /\ last.qualityScore = healed.qualityScore
               /\ last.qualityFlags = healed.qualityFlags
               /\ raised = ""

\* the foreign-key columns (isForeignKey with a foreignKeyRef) and the first
\* three of them in column order
FkPositions(cols) ==
    {j \in 1..Len(cols) : cols[j].isForeignKey /\ cols[j].foreignKeyRef # NoneRef}
CheckedFk(cols) ==
    {j \in FkPositions(cols) : Cardinality({k \in FkPositions(cols) : k < j}) < FkChecked}

\* C20: an integrity query is made for the first three foreign-key columns
\* and for no other column; the score is lower than with no orphan anywhere by
\* the sum of min(15, n) over the checked columns with n > 0 orphans, which is
\* at most 45, and there is one "fk" flag per such column
C20_FirstThreeFkColumnsOnly ==
    (Profiled /\ df.loaded)
        => LET cols  == LastTable.columns
               flags == updated_tables[Len(updated_tables)].qualityFlags
               clean == ProfileTable(LastTable, df,
                            [j \in 1..Len(fk_result) |->
                                IF fk_result[j] = NotAsked THEN NotAsked ELSE FkReturns(0)])
           IN  /\ \A j \in 1..Len(cols) : (fk_result[j] # NotAsked) <=> (j \in CheckedFk(cols))
               /\ KindCount(flags, "fk") = Cardinality(OrphanCols(fk_result))
               /\ clean.quality_score - LastRun.quality_score = OrphanSum(fk_result, 1) * Scale
               /\ OrphanSum(fk_result, 1) <= FkChecked * FkCap
               /\ \A j \in OrphanCols(fk_result) :
                     \E k \in 1..Len(flags) : flags[k] = Flag("fk", cols[j].name)

C20_Witness ==
    /\ Profiled /\ df.loaded /\ LastTable.name = "w"
    /\ \A j \in 1..3 : fk_result[j] = FkReturns(FkCap + MaxOver)
    /\ fk_result[4] = NotAsked
    /\ LastRun.quality_score = (StartScore - FkChecked * FkCap) * Scale
    /\ updated_tables[Len(updated_tables)].qualityScore = 55



\* the profiler run whose update_one came last
LastWriter == writeLog[Len(writeLog)]
BothRunsDone == DOMAIN runs = ProfileRuns /\ \A w \in ProfileRuns : runs[w].pc = "done"

\* C16: with two profiler runs on one snapshot, after any write, and so after
\* both have finished, the persisted tables array is exactly the output of
\* the run that wrote last and qualityAnalyzedAt is the instant of that same
\* write; no table of the other run remains
C16_LastWholeWriteWins ==
    (DOMAIN runs = ProfileRuns /\ writeLog # <<>>) =>
        /\ doc.tables = runs[LastWriter].updated_tables
        /\ doc.qualityAnalyzedAt = Times[Len(writeLog)]

\* both runs finished after interleaving, with different results for every table
C16_Witness ==
    /\ BothRunsDone
    /\ writeLog = <<"run2", "run1">>
    /\ runs["run1"].tables = WriterDoc.tables
    /\ runs["run2"].tables = WriterDoc.tables
    /\ \A i \in 1..Len(doc.tables) :
          runs["run1"].updated_tables[i] # runs["run2"].updated_tables[i]
    /\ doc.tables[1].qualityScore # FallbackScore
    /\ doc.tables[2].qualityScore = FallbackScore


RunAndDocsDone ==
    /\ DOMAIN runs = {"run1", DocsJob}
    /\ runs["run1"].pc = "done"
    /\ runs[DocsJob].pc = "done"

\* the persisted column carries the quality record the run wrote for it
KeepsQuality(col, written) ==
    "quality" \in DOMAIN written =>
        ("quality" \in DOMAIN col /\ col.quality = written.quality)

\* C17: when a profiler run and the documentation job on one snapshot have
\* both finished, however they interleaved, every persisted table carries
\* qualityScore, qualityFlags and aiSummary, and every column carries the
\* quality record the run wrote and an aiDescription
C17_ProfilerAndDocsJobAdditive ==
    RunAndDocsDone =>
        \A i \in 1..Len(doc.tables) :
            /\ HasQuality(doc.tables[i])
            /\ "aiSummary" \in DOMAIN doc.tables[i]
            /\ \A j \in 1..Len(doc.tables[i].columns) :
                  /\ "aiDescription" \in DOMAIN doc.tables[i].columns[j]
                  /\ KeepsQuality(doc.tables[i].columns[j],
                                  runs["run1"].updated_tables[i].columns[j])

\* the sample reduced to its column j, and the pass over that column alone
OneColumn(d, j) == [d EXCEPT !.cols = <<d.cols[j]>>]
AloneIn(cols, d, j) ==
    ColumnsPass(<<cols[j]>>, OneColumn(d, j), 1,
                [score |-> StartScore * Scale, flags |-> <<>>, columns |-> <<>>])

\* C21: for a table whose sample loaded, a column with completeness < 80 takes
\* min(10, (80 - completeness) / 4) from the score, more than 0 and at most
\* 10, and has its one flag among the table's qualityFlags; a column with
\* completeness >= 80 takes nothing and has no flag
C21_LowCompletenessDeduction ==
    (Profiled /\ df.loaded) =>
        \A j \in 1..Len(LastTable.columns) :
           LET completeness == Completeness(df.cols[j].nulls, df.rows)
               alone == AloneIn(LastTable.columns, df, j)
               taken == StartScore * Scale - alone.score
               flag  == Flag("completeness", LastTable.columns[j].name)
               flags == updated_tables[Len(updated_tables)].qualityFlags
               hits  == {k \in 1..Len(flags) : flags[k] = flag}
           IN  IF completeness < CompletenessThreshold * 100
               THEN /\ taken = Min(CompletenessCap * Scale,
                                   CompletenessThreshold * 100 - completeness)
                    /\ taken > 0
                    /\ taken <= CompletenessCap * Scale
                    /\ alone.flags = <<flag>>
                    /\ Cardinality(hits) = 1
               ELSE /\ taken = 0
                    /\ alone.flags = <<>>
                    /\ hits = {}

\* a table with a column capped at 10 and a column below the cap
C21_Witness ==
    /\ Profiled /\ df.loaded
    /\ \E j \in 1..Len(df.cols) :
          AloneIn(LastTable.columns, df, j).score = (StartScore - CompletenessCap) * Scale
    /\ \E j \in 1..Len(df.cols) :
          /\ AloneIn(LastTable.columns, df, j).score > (StartScore - CompletenessCap) * Scale
          /\ AloneIn(LastTable.columns, df, j).score < StartScore * Scale
    /\ \E j \in 1..Len(df.cols) : df.cols[j].nulls = 0

\* C25: when run_quality_analysis has ended, by returning or by raising, the
\* Mongo client it opened is closed
C25_MongoClientClosedOnEveryExit ==
    QualityEnded => mongoClients = 0

\* what the iteration over a table can append to updated_tables on a session
\* in the given state
TableResults(table, failed) ==
    UNION { { ProfileTable(table, d, FkAnswered(db_type, data, failed).answers).table :
                data \in FkResults(table, d) } :
            d \in {s \in Samples(table) : ~NuniqueRaises(s) /\ (failed => ~s.loaded)} }

\* C26: within one run, what a table can get (qualityScore, qualityFlags,
\* column quality) is the same whatever happened to the tables before it: the
\* results open to the next table on a session an earlier table left in a
\* failed transaction are those open to it on a session no statement has
\* failed on
C26_LaterTableUnaffectedByEarlierFailure ==
    (pc = "q_loop" /\ Len(updated_tables) < Len(snapshot.tables) /\ txFailed) =>
        TableResults(snapshot.tables[Len(updated_tables) + 1], TRUE)
            = TableResults(snapshot.tables[Len(updated_tables) + 1], FALSE)

\* col_names = [c["name"] for c in columns]
ColNames(table) == [j \in 1..Len(table.columns) |-> table.columns[j].name]

\* C22: the sample statement issued for a table selects exactly the columns
\* the snapshot lists for it and limits the rows to 10,000, in every dialect
\* the profiler connects to
C22_SampleSelectsListedColumns ==
    Profiled =>
        LET query == load_sample(db_type, LastTable.name, ColNames(LastTable))
        IN  /\ query.select = ColNames(LastTable)
            /\ query.limit.rows <= SampleCap

\* C28: whatever the interleaving of /generate-docs requests and their
\* background jobs for one snapshot, a status record that says complete has
\* progress = total and an empty currentTable, and one that says failed has
\* progress 0: no job still in its loop writes into a record that another
\* job has brought to its end
C28_TerminalStatusIsConsistent ==
    /\ job_status.status = "complete" =>
          (job_status.progress = job_status.total /\ job_status.currentTable = "")
    /\ job_status.status = "failed" => job_status.progress = 0

\* C23: for a profiled column, with N = max(sampled rows, 1): completeness is
\* round((1 - nullCount / N) * 100, 2) and uniquenessRatio is
\* round(distinctCount / N, 4), nullCount being the None values of the series
\* and distinctCount its distinct other values; so 0 <= nullCount,
\* nullCount + distinctCount <= N, completeness is from 0 to 100,
\* uniquenessRatio from 0 to 1, and a column without nulls has completeness
\* 100.00, in an empty sample too
C23_CompletenessAndUniqueness ==
    quality.profiled =>
        LET N == IF Rows(series) >= 1 THEN Rows(series) ELSE 1
            numbers == {series.values[i] : i \in 1..Len(series.values)}
            others == Cardinality(numbers) + (IF series.texts > 0 THEN 1 ELSE 0)
        IN  /\ quality.nullCount = series.nulls
            /\ quality.distinctCount = others
            /\ quality.completeness = Round(100 * 100 * (N - quality.nullCount), N)
            /\ quality.uniquenessRatio = Round(100 * 100 * quality.distinctCount, N)
            /\ quality.nullCount >= 0
            /\ quality.nullCount + quality.distinctCount <= N
            /\ quality.completeness \in 0..(100 * 100)
            /\ quality.uniquenessRatio \in 0..(100 * 100)
            /\ quality.nullCount = 0 => quality.completeness = 100 * 100
            /\ column_table.columns[1].quality = quality

\* a column with nulls, several distinct values and a completeness that is
\* rounded
C23_Witness ==
    /\ quality.profiled
    /\ series.nulls > 0
    /\ quality.distinctCount >= 2
    /\ quality.completeness % 100 # 0

\* C24: a column with at least 5 numeric values gets outlierCount, the larger
\* of the number of values outside [Q1 - 1.5 IQR, Q3 + 1.5 IQR] and, when the
\* values are not all equal, the number of values with |z| > 3; it is at least
\* 1 when a value is outside the fences and never more than the number of
\* numeric values; a column with fewer numeric values has no outlierCount
C24_OutlierCount ==
    quality.profiled =>
        IF Len(series.values) >= MinNumeric
        THEN /\ "outlierCount" \in DOMAIN quality
             /\ quality.outlierCount >= FenceOutliers(series.values)
             /\ Spread(series.values) => quality.outlierCount >= ZOutliers(series.values)
             /\ quality.outlierCount \in {FenceOutliers(series.values), ZOutliers(series.values)}
             /\ FenceOutliers(series.values) >= 1 => quality.outlierCount >= 1
             /\ quality.outlierCount <= Len(series.values)
        ELSE "outlierCount" \notin DOMAIN quality

\* the sample [1, 2, 3, 4, 100]
C24_Witness ==
    /\ quality.profiled
    /\ series.values = <<1, 2, 3, 4, 100>>
    /\ quality.outlierCount = 1

\* C27: a table whose sample loaded and whose final qualityScore is 100 has no
\* flag
C27_FullScoreHasNoFlag ==
    (quality.profiled /\ column_table.qualityScore = StartScore) =>
        column_table.qualityFlags = <<>>

EmbedCall == retry.fn = "_get_embedding_with_retry"
GeminiCall == retry.fn = "_call_gemini_with_retry"
\* the calls of the wrapped API made so far
Calls == Len(retry.errors) + (IF retry.returned THEN 1 ELSE 0)

\* C29: _get_embedding_with_retry calls the embedding API at most 3 times;
\* every error it retried after names 429, quota or rate (in any case of
\* letters); an error that names none of them, and the error of the third
\* attempt, is re-raised at once, no wait following it; and the function never
\* ends without an embedding: it returns what a call returned, or raises
C29_EmbeddingRetryBounded ==
    EmbedCall =>
        /\ Calls <= MaxRetries
        /\ Len(retry.waits) <= MaxRetries - 1
        /\ \A i \in 1..Len(retry.waits) : EmbedRateLimit(retry.errors[i])
        /\ \A i \in 1..Len(retry.errors) :
              (~EmbedRateLimit(retry.errors[i]) \/ i = MaxRetries)
                  => (retry.pc = "raised" /\ i = Len(retry.errors) /\ Len(retry.waits) = i - 1)
        /\ retry.pc \in {"calling", "returned", "raised"}
        /\ retry.pc = "returned" => retry.returned
        /\ retry.pc = "raised" => (~retry.returned /\ Len(retry.waits) = Len(retry.errors) - 1)

\* three rate-limit errors in a row: the third is re-raised after two waits
C29_Witness ==
    /\ EmbedCall
    /\ retry.pc = "raised"
    /\ Len(retry.errors) = MaxRetries
    /\ retry.waits = <<EmbedWait, 2 * EmbedWait>>

\* C30: when every attempt of _call_gemini_with_retry meets a rate-limit
\* error, the waits it has made when it gives up are 10s, 20s and 40s
C30_GeminiWaitsTenTwentyForty ==
    (GeminiCall /\ retry.pc = "raised"
        /\ \A i \in 1..Len(retry.errors) : GeminiRateLimit(retry.errors[i]))
        => retry.waits = <<GeminiWait, 2 * GeminiWait, 4 * GeminiWait>>

=============================================================================
